---- MODULE Spec2Model ----
(***************************************************************************)
(* Conversation orchestration core of charliechat-api.                     *)
(*                                                                         *)
(* Text is modelled by TLA+ strings, used character by character through   *)
(* Len, SubSeq and \o.  A Python dict is a function whose domain is the    *)
(* set of its keys; a Python list is a sequence.  A missing (None) text    *)
(* argument is the empty string wherever the code only tests it with       *)
(* `not x`, and a missing (None) session state is the empty dict, which    *)
(* `session_state or {}` treats the same way.                              *)
(***************************************************************************)
EXTENDS Integers, Sequences, FiniteSets, TLC

(***************************************************************************)
(* Bounds of the model.                                                    *)
(***************************************************************************)
\* the distinct questions a user asks
NumQuestions == 2

\* the distinct texts the generation backend answers with
NumAnswers == 2

(***************************************************************************)
(* Python str primitives.                                                  *)
(***************************************************************************)
Chr(s, i) == SubSeq(s, i, i)

Whitespace == {" ", "\n", "\r", "\t"}

RECURSIVE lstrip(_)
lstrip(s) ==
    IF Len(s) > 0 /\ Chr(s, 1) \in Whitespace
    THEN lstrip(SubSeq(s, 2, Len(s)))
    ELSE s

RECURSIVE rstrip(_)
rstrip(s) ==
    IF Len(s) > 0 /\ Chr(s, Len(s)) \in Whitespace
    THEN rstrip(SubSeq(s, 1, Len(s) - 1))
    ELSE s

strip(s) == rstrip(lstrip(s))

\* str.replace(old, new) for a one-character `old` (the text is halved at
\* each step, which keeps the evaluation shallow)
RECURSIVE replace(_, _, _)
replace(s, old, new) ==
    IF Len(s) = 0 THEN ""
    ELSE IF Len(s) = 1 THEN (IF s = old THEN new ELSE s)
    ELSE replace(SubSeq(s, 1, Len(s) \div 2), old, new)
         \o replace(SubSeq(s, Len(s) \div 2 + 1, Len(s)), old, new)

\* text[a:b] for 0 <= a, Python slice bounds
Slice(s, a, b) == SubSeq(s, a + 1, IF b < Len(s) THEN b ELSE Len(s))

StartsAt(s, i, lit) ==
    /\ i >= 1
    /\ i + Len(lit) - 1 <= Len(s)
    /\ SubSeq(s, i, i + Len(lit) - 1) = lit

\* `needle in s`
Contains(s, needle) ==
    \E i \in 1..(Len(s) - Len(needle) + 1) : StartsAt(s, i, needle)

UpperAlpha == "ABCDEFGHIJKLMNOPQRSTUVWXYZ"
LowerAlpha == "abcdefghijklmnopqrstuvwxyz"
Digits == "0123456789"

IndexIn(alpha, c) ==
    IF \E i \in 1..Len(alpha) : Chr(alpha, i) = c
    THEN CHOOSE i \in 1..Len(alpha) : Chr(alpha, i) = c
    ELSE 0

IsUpper(c) == IndexIn(UpperAlpha, c) # 0
IsLower(c) == IndexIn(LowerAlpha, c) # 0
IsCased(c) == IsUpper(c) \/ IsLower(c)
LowerChr(c) == IF IsUpper(c) THEN Chr(LowerAlpha, IndexIn(UpperAlpha, c)) ELSE c
UpperChr(c) == IF IsLower(c) THEN Chr(UpperAlpha, IndexIn(LowerAlpha, c)) ELSE c

\* regex \w
IsWordChr(c) == IsCased(c) \/ IndexIn(Digits, c) # 0 \/ c = "_"

RECURSIVE lower(_)
lower(s) ==
    IF Len(s) = 0 THEN ""
    ELSE IF Len(s) = 1 THEN LowerChr(s)
    ELSE lower(SubSeq(s, 1, Len(s) \div 2))
         \o lower(SubSeq(s, Len(s) \div 2 + 1, Len(s)))

\* str.title(): a cased character is upper-cased when the character before
\* it is not cased, and lower-cased otherwise
RECURSIVE titleFrom(_, _, _)
titleFrom(s, lo, hi) ==
    IF lo > hi THEN ""
    ELSE IF lo = hi
    THEN (IF lo > 1 /\ IsCased(Chr(s, lo - 1))
          THEN LowerChr(Chr(s, lo)) ELSE UpperChr(Chr(s, lo)))
    ELSE titleFrom(s, lo, (lo + hi) \div 2)
         \o titleFrom(s, (lo + hi) \div 2 + 1, hi)

title(s) == titleFrom(s, 1, Len(s))

\* s.find(sep, from), 1-based; 0 when sep does not occur
find(s, sep, from) ==
    LET hits == {i \in from..(Len(s) - Len(sep) + 1) : StartsAt(s, i, sep)}
    IN IF hits = {} THEN 0 ELSE CHOOSE i \in hits : \A j \in hits : i <= j

\* s.rfind(c) as Python returns it: 0-based, -1 when c does not occur
rfind(s, c) ==
    LET hits == {i \in 1..Len(s) : Chr(s, i) = c}
    IN IF hits = {} THEN -1 ELSE (CHOOSE i \in hits : \A j \in hits : j <= i) - 1

\* str.split(sep) for a non-empty separator: the text is cut at the
\* occurrences of sep, taken from the left without overlap
RECURSIVE SplitFrom(_, _, _, _)
SplitFrom(s, sep, occurrences, from) ==
    LET later == {i \in occurrences : i >= from}
        i == CHOOSE i \in later : \A j \in later : i <= j
    IN IF later = {} THEN <<SubSeq(s, from, Len(s))>>
       ELSE <<SubSeq(s, from, i - 1)>>
            \o SplitFrom(s, sep, occurrences, i + Len(sep))

split(s, sep) ==
    SplitFrom(s, sep, {i \in 1..(Len(s) - Len(sep) + 1) : StartsAt(s, i, sep)}, 1)

\* sep.join(parts)
RECURSIVE join(_, _)
join(sep, parts) ==
    IF Len(parts) = 0 THEN ""
    ELSE IF Len(parts) = 1 THEN parts[1]
    ELSE parts[1] \o sep \o join(sep, Tail(parts))

(***************************************************************************)
(* Python dict primitives.                                                 *)
(***************************************************************************)
EmptyDict == << >>

Has(d, k) == k \in DOMAIN d

\* d[k] = v
DictSet(d, k, v) == [x \in (DOMAIN d) \cup {k} |-> IF x = k THEN v ELSE d[x]]

\* d.pop(k, None)
DictPop(d, k) == [x \in (DOMAIN d) \ {k} |-> d[x]]

\* {**a, **b}
DictMerge(a, b) ==
    [x \in (DOMAIN a) \cup (DOMAIN b) |-> IF x \in DOMAIN b THEN b[x] ELSE a[x]]

\* d.get("conversation_history", [])
HistoryOf(d) ==
    IF Has(d, "conversation_history") THEN d["conversation_history"] ELSE << >>

(***************************************************************************)
(* PromptEngineer (app/services/prompt_engineering.py).                    *)
(***************************************************************************)
\* any(word in question_lower for word in words)
AnyIn(text, words) == \E w \in words : Contains(text, w)

BackgroundWords ==
    {"background", "experience", "career", "tell me about yourself",
     "overview", "history", "story"}

SpecificWords ==
    {"education", "skills", "certifications", "degree", "school",
     "what is", "what are", "list", "show me"}

is_background_question(question) == AnyIn(lower(question), BackgroundWords)

is_specific_question(question) == AnyIn(lower(question), SpecificWords)

\* get_kb_query_params(question)['numberOfResults']
get_kb_query_params(question) ==
    IF is_background_question(question) THEN 3
    ELSE IF is_specific_question(question) THEN 2
    ELSE 2

\* select_kb_context with the specific questions tried before the background
\* ones
select_kb_context_specific_first(question, kb_passages) ==
    IF Len(kb_passages) = 0
    THEN [selected |-> << >>, query_results |-> 3]
    ELSE IF is_specific_question(question) \/ ~is_background_question(question)
    THEN [selected |-> SubSeq(kb_passages, 1, IF Len(kb_passages) < 2 THEN Len(kb_passages) ELSE 2),
          query_results |-> 2]
    ELSE [selected |-> SubSeq(kb_passages, 1, IF Len(kb_passages) < 3 THEN Len(kb_passages) ELSE 3),
          query_results |-> 3]

\* select_kb_context(question, kb_passages) -> (selected, query_results)
select_kb_context(question, kb_passages) ==
    IF Len(kb_passages) = 0
    THEN [selected |-> << >>, query_results |-> 3]
    ELSE IF is_background_question(question)
    THEN [selected |-> SubSeq(kb_passages, 1, IF Len(kb_passages) < 3 THEN Len(kb_passages) ELSE 3),
          query_results |-> 3]
    ELSE [selected |-> SubSeq(kb_passages, 1, IF Len(kb_passages) < 2 THEN Len(kb_passages) ELSE 2),
          query_results |-> 2]

Greetings ==
    {"hi", "hello", "hey", "thanks", "thank", "thank you", "yes", "no", "ok",
     "okay", "sure", "yep", "nope"}

AttributeWords ==
    {"education", "degree", "school", "university", "college",
     "skills", "certifications", "cert", "certificate"}

InterrogativeWords == {"what", "how", "when", "where", "why", "which", "who"}

NarrativeWords ==
    {"tell me about yourself", "background", "experience", "career",
     "overview", "story", "history", "everything"}

Min(a, b) == IF a < b THEN a ELSE b

\* calculate_response_length with the interrogative words tried before the
\* attribute words
calculate_response_length_reordered(question, max_tokens) ==
    LET question_lower == strip(lower(question))
    IN IF question_lower \in Greetings THEN Min(100, max_tokens)
       ELSE IF AnyIn(question_lower, InterrogativeWords) THEN Min(600, max_tokens)
       ELSE IF AnyIn(question_lower, AttributeWords) THEN Min(700, max_tokens)
       ELSE IF AnyIn(question_lower, NarrativeWords) THEN Min(700, max_tokens)
       ELSE Min(500, max_tokens)

\* calculate_response_length without the cap
calculate_response_length_uncapped(question, max_tokens) ==
    LET question_lower == strip(lower(question))
    IN IF question_lower \in Greetings THEN 100
       ELSE IF AnyIn(question_lower, AttributeWords) THEN 700
       ELSE IF AnyIn(question_lower, InterrogativeWords) THEN 600
       ELSE IF AnyIn(question_lower, NarrativeWords) THEN 700
       ELSE 500

\* calculate_response_length(question, max_tokens)
calculate_response_length(question, max_tokens) ==
    LET question_lower == strip(lower(question))
    IN IF question_lower \in Greetings THEN Min(100, max_tokens)
       ELSE IF AnyIn(question_lower, AttributeWords) THEN Min(700, max_tokens)
       ELSE IF AnyIn(question_lower, InterrogativeWords) THEN Min(600, max_tokens)
       ELSE IF AnyIn(question_lower, NarrativeWords) THEN Min(700, max_tokens)
       ELSE Min(500, max_tokens)

(***************************************************************************)
(* ChatService._extract_intent_slots (app/services/chat_service.py): the   *)
(* regular expressions, matched by hand.  A match is reported by the index *)
(* of the first character after it, 0 when there is none.                  *)
(***************************************************************************)
NoMatch == [alt |-> "", end |-> 0]

\* the least member of a non-empty set of numbers
Least(S) == CHOOSE i \in S : \A j \in S : i <= j

\* (charles|charlie|chaz|charles o\'?brien|charles obrien), in the order the
\* regex engine tries the alternatives
NameAlts ==
    <<"charles", "charlie", "chaz", "charles o'brien", "charles obrien">>

WordAt(s, p) == p >= 1 /\ p <= Len(s) /\ IsWordChr(Chr(s, p))

\* \b in front of the character at index p
Boundary(s, p) == WordAt(s, p - 1) # WordAt(s, p)

\* \s* from index j: the index after the run of whitespace
RECURSIVE SpacesEnd(_, _)
SpacesEnd(s, j) ==
    IF j <= Len(s) /\ Chr(s, j) \in Whitespace THEN SpacesEnd(s, j + 1) ELSE j

\* e when the run of whitespace from j is not empty and ends before e
NotEmptyRun(j, e) == IF e = j THEN 0 ELSE e

\* \s+ from index j
Spaces1End(s, j) == NotEmptyRun(j, SpacesEnd(s, j))

\* FirstAlt(s, j, alts, rest): the first of the alternatives that matches at
\* j and lets the rest of the pattern match behind it (defined below)
RECURSIVE FirstAlt(_, _, _, _)

\* (NAME)\b
NameThenBoundary(s, j) == FirstAlt(s, j, NameAlts, "boundary")

\* (NAME)\b from j when j is an index, no match when j is 0
NameFrom(s, j) == IF j = 0 THEN NoMatch ELSE NameThenBoundary(s, j)

\* \s+(NAME)\b
SpacesThenName(s, j) == NameFrom(s, Spaces1End(s, j))

\* s\s+ from index k
SThenSpaces(s, k) == IF StartsAt(s, k, "s") THEN Spaces1End(s, k + 1) ELSE 0

\* '?s\s+ from index j: a quote at j is taken, and s cannot match in its place
PossessiveEnd(s, j) == SThenSpaces(s, IF StartsAt(s, j, "'") THEN j + 1 ELSE j)

\* one of `words` and \b from index k (nothing more when words is empty)
TopicEnd(s, k, words) ==
    IF k = 0 \/ Len(words) = 0 THEN k
    ELSE FirstAlt(s, k, words, "boundary").end

\* '?s\s+ , then one of `words` and \b when words is not empty
PossessiveThen(s, j, words) == TopicEnd(s, PossessiveEnd(s, j), words)

TopicWords == <<"experience", "skills", "background", "work", "career">>

\* the rest of a pattern behind an alternative that ends before index e: the
\* index behind the match, 0 when the rest does not match
RestEnd(rest, s, e) ==
    CASE rest = "boundary" -> IF Boundary(s, e) THEN e ELSE 0
      [] rest = "spaces_name" -> SpacesThenName(s, e).end
      [] rest = "possessive_topic" -> PossessiveThen(s, e, TopicWords)
      [] rest = "possessive" -> PossessiveThen(s, e, << >>)

FirstAlt(s, j, alts, rest) ==
    LET ok == {k \in 1..Len(alts) :
                 StartsAt(s, j, alts[k]) /\ RestEnd(rest, s, j + Len(alts[k])) # 0}
    IN IF ok = {} THEN NoMatch
       ELSE [alt |-> alts[Least(ok)],
             end |-> RestEnd(rest, s, j + Len(alts[Least(ok)]))]

\* \s+(NAME)\b after the prefix that matched at i
NameAfter(s, i, prefix) ==
    IF prefix.end = 0 THEN NoMatch ELSE SpacesThenName(s, i + Len(prefix.alt))

\* the match m with the \s* behind it
WithSpaces(s, m) ==
    IF m.end = 0 THEN NoMatch ELSE [alt |-> m.alt, end |-> SpacesEnd(s, m.end)]

\* person_patterns[0..2] and person_cleanup_patterns[0..2], matched at index i
PatternAt(pattern, s, i) ==
    CASE pattern = "person_about" ->
           IF ~Boundary(s, i) THEN NoMatch
           ELSE NameAfter(s, i,
                    FirstAlt(s, i, <<"about", "tell me about", "what about">>,
                             "spaces_name"))
      [] pattern = "person_possessive" ->
           IF ~Boundary(s, i) THEN NoMatch
           ELSE FirstAlt(s, i, NameAlts, "possessive_topic")
      [] pattern = "person_start" ->
           IF i # 1 THEN NoMatch ELSE NameThenBoundary(s, i)
      [] pattern = "cleanup_about" ->
           IF ~Boundary(s, i) THEN NoMatch
           ELSE FirstAlt(s, i, <<"about", "tell me about">>, "spaces_name")
      [] pattern = "cleanup_possessive" ->
           IF ~Boundary(s, i) THEN NoMatch
           ELSE FirstAlt(s, i, NameAlts, "possessive")
      [] pattern = "cleanup_start" ->
           IF i # 1 THEN NoMatch ELSE WithSpaces(s, NameThenBoundary(s, i))

\* the leftmost of the matches m[i], i the index a match starts at
Leftmost(m) ==
    LET hits == {i \in DOMAIN m : m[i].end # 0}
    IN IF hits = {} THEN NoMatch ELSE m[Least(hits)]

\* re.search(pattern, s).group(1), "" when the pattern matches nowhere
re_search(pattern, s) ==
    Leftmost([i \in 1..(Len(s) + 1) |-> PatternAt(pattern, s, i)]).alt

\* re.sub(pattern, '', s, flags=re.IGNORECASE) from index i on
RECURSIVE re_sub(_, _, _)
re_sub(pattern, s, i) ==
    IF i > Len(s) THEN ""
    ELSE LET e == PatternAt(pattern, lower(s), i).end
         IN IF e # 0 THEN re_sub(pattern, s, e)
            ELSE Chr(s, i) \o re_sub(pattern, s, i + 1)

\* settings.default_person if hasattr(settings, 'default_person') else
\* 'Charles': Settings (app/config.py) declares no default_person
SettingsDefaultPerson == "Charles"

\* a if a, else b
OrElse(a, b) == IF a # "" THEN a ELSE b

\* _extract_intent_slots(text) -> (person, question); None is ""
_extract_intent_slots(text) ==
    IF strip(text) = "" THEN [person |-> "", question |-> ""]
    ELSE [person |->
              OrElse(re_search("person_about", strip(lower(text))),
              OrElse(re_search("person_possessive", strip(lower(text))),
              OrElse(re_search("person_start", strip(lower(text))),
                     SettingsDefaultPerson))),
          question |->
              strip(re_sub("cleanup_start",
                      re_sub("cleanup_possessive",
                        re_sub("cleanup_about", strip(text), 1), 1), 1))]

(***************************************************************************)
(* AIService (app/services/ai_service.py).                                 *)
(***************************************************************************)
\* BEDROCK_MAX_TOKENS default of AIService.__init__
max_tokens == 500

\* DEFAULT_PERSON default of AIService.__init__
default_person == "Charles"

\* the values DEFAULT_PERSON is set to, << >> when it is unset
Environments == {<< >>, <<"Maria">>, <<"charlie">>}

\* os.getenv("DEFAULT_PERSON", "Charles")
getenv_default_person(environment) ==
    IF environment = << >> THEN default_person ELSE environment[1]

\* the limit of conversation_history kept by query_bedrock
MaxHistory == 3

\* the exchanges build_prompt shows
ContextExchanges == 2

\* max_length that query_bedrock passes to _trim_answer
HistoryAnswerLength == 1200

NoKbContext == "No additional KB context available."

FallbackMessage ==
    "I'm having trouble processing your request right now. Please try again."

ClarificationMessage ==
    "I did not catch a question. Please ask me about experience, skills, or leadership style."

\* _get_default_system_prompt(), line by line (the template is the lines
\* joined by "\n")
system_prompt_template ==
    << "",
       "You are Charlie Chat, representing {person}. You are a software engineer and technical leader with extensive experience in:",
       "",
       "- AWS cloud architecture and services (Lambda, API Gateway, Route53, Bedrock, Lex)",
       "- Python development and FastAPI",
       "- Terraform for infrastructure as code",
       "- Full-stack web development",
       "- Technical leadership and team management",
       "",
       "CONVERSATION GUIDELINES:",
       "- Act naturally in conversation - don't introduce yourself repeatedly",
       "- Reference previous topics when relevant (e.g., \"As I mentioned earlier...\", \"Building on what we discussed...\")",
       "- Use a professional but chill surfer tone",
       "- Be concise and helpful with short paragraphs",
       "- If asked about general topics, relate them back to {person}'s experience when possible",
       "- Only introduce yourself on the very first interaction",
       "",
       "IMPORTANT: Use the specific context provided below to answer questions about {person}'s experience, skills, and background. Do not give generic responses - always reference the specific details provided in the context.",
       "",
       "{context}",
       "",
       "Question: {question}",
       "" >>

\* normalize_person_name(person_value) of an AIService whose default_person
\* is `configured`; None is ""
normalize_person_name(configured, person_value) ==
    IF strip(person_value) = "" THEN configured
    ELSE LET person == lower(strip(person_value))
         IN IF person \in {"charlie", "chaz", "charles o'brien",
                           "charles obrien", "charles o brien"}
            THEN "Charles"
            ELSE title(strip(person_value))

\* _trim_answer(answer, max_length) for an integer max_length
\* (last_period > max_length * 0.8 in integers)
_trim_answer(answer, max_length) ==
    LET stripped == strip(answer)
        trimmed == Slice(stripped, 0, max_length)
        last_period == rfind(trimmed, ".")
        last_newline == rfind(trimmed, "\n")
    IN IF Len(stripped) <= max_length THEN stripped
       ELSE IF last_period * 10 > max_length * 8
       THEN Slice(stripped, 0, last_period + 1)
       ELSE IF last_newline * 10 > max_length * 8
       THEN Slice(stripped, 0, last_newline)
       ELSE Slice(stripped, 0, max_length) \o "..."

\* the keys of the voice_instructions table
VoiceStyles == {"normal", "surfer", "pirate", "ninja"}

\* _get_voice_style_instructions(voice_style)
_get_voice_style_instructions(voice_style) ==
    CASE voice_style = "normal" -> ""
      [] voice_style = "surfer" ->
           "Respond in a chill surfer tone. Use friendly casual words like 'dude', 'awesome', 'totally', 'stoked'."
      [] voice_style = "pirate" ->
           "Respond like a pirate, playful but clear, throw in an occasional 'Arr' and use pirate speak like 'matey', 'ye', 'aye'."
      [] voice_style = "ninja" ->
           "Respond with ninja wisdom and stealth. Use mysterious, wise language with occasional references to the way of the ninja."
      [] OTHER -> ""

\* a template line cut at its replacement fields: literal text and field
\* names alternate, literal text first ("a{f}b" is <<"a", "f", "b">>)
RECURSIVE Fields(_)
Fields(line) ==
    LET open == find(line, "{", 1)
        close == find(line, "}", open + 1)
    IN IF open = 0 THEN <<line>>
       ELSE <<SubSeq(line, 1, open - 1), SubSeq(line, open + 1, close - 1)>>
            \o Fields(SubSeq(line, close + 1, Len(line)))

\* the template as str.format reads it
ParsedTemplate ==
    [i \in DOMAIN system_prompt_template |-> Fields(system_prompt_template[i])]

\* A text the program assembles line by line is kept as the sequence of its
\* lines, text.split('\n'): Lines(s) of a value s, Cat(a, b) for the
\* concatenation of two texts given that way ("\n" is <<"", "">>), and
\* CatAll(texts) for the concatenation of a sequence of them
Lines(s) == split(s, "\n")

Cat(a, b) == SubSeq(a, 1, Len(a) - 1) \o <<a[Len(a)] \o b[1]>> \o Tail(b)

RECURSIVE CatAll(_)
CatAll(texts) ==
    IF Len(texts) = 0 THEN <<"">> ELSE Cat(texts[1], CatAll(Tail(texts)))

\* text.strip() on the lines of a text
RECURSIVE LinesLstrip(_)
LinesLstrip(t) ==
    IF Len(t) > 1 /\ lstrip(t[1]) = "" THEN LinesLstrip(Tail(t))
    ELSE <<lstrip(t[1])>> \o Tail(t)

RECURSIVE LinesRstrip(_)
LinesRstrip(t) ==
    IF Len(t) > 1 /\ rstrip(t[Len(t)]) = "" THEN LinesRstrip(SubSeq(t, 1, Len(t) - 1))
    ELSE SubSeq(t, 1, Len(t) - 1) \o <<rstrip(t[Len(t)])>>

LinesStrip(t) == LinesRstrip(LinesLstrip(t))

\* str.format on one template line: the literal parts of a line hold no
\* newline, the values kw[field] are given by their lines
RECURSIVE FormatLine(_, _, _)
FormatLine(parts, k, kw) ==
    IF k > Len(parts) THEN <<"">>
    ELSE Cat(IF k % 2 = 1 THEN <<parts[k]>> ELSE kw[parts[k]],
             FormatLine(parts, k + 1, kw))

\* system_prompt_template.format(...) from template line i on
RECURSIVE FormatFrom(_, _)
FormatFrom(i, kw) ==
    IF i > Len(ParsedTemplate) THEN << >>
    ELSE FormatLine(ParsedTemplate[i], 1, kw) \o FormatFrom(i + 1, kw)

\* the exchange lines of the conversation context: enumerate(history[-2:], 1)
RECURSIVE ExchangeLines(_, _)
ExchangeLines(exchanges, i) ==
    IF i > Len(exchanges) THEN <<"">>
    ELSE CatAll(<< <<"Q" \o ToString(i) \o ": ">>, Lines(exchanges[i].question),
                   <<"", "A" \o ToString(i) \o ": ">>, Lines(exchanges[i].answer),
                   <<"", "", "">>, ExchangeLines(exchanges, i + 1) >>)

\* conversation_history[-n:]
LastOf(conversation_history, n) ==
    SubSeq(conversation_history,
           IF Len(conversation_history) > n THEN Len(conversation_history) - n + 1 ELSE 1,
           Len(conversation_history))

\* a session_context that shows the first exchanges: conversation_history[:2]
session_context_oldest(session_attributes) ==
    IF Len(HistoryOf(session_attributes)) = 0 THEN <<"">>
    ELSE Cat(<<"CONVERSATION CONTEXT:", "">>,
             ExchangeLines(SubSeq(HistoryOf(session_attributes), 1,
                                  Min(ContextExchanges, Len(HistoryOf(session_attributes)))), 1))

\* the session_context of build_prompt
session_context(session_attributes) ==
    IF Len(HistoryOf(session_attributes)) = 0 THEN <<"">>
    ELSE Cat(<<"CONVERSATION CONTEXT:", "">>,
             ExchangeLines(LastOf(HistoryOf(session_attributes), ContextExchanges), 1))

\* a combined_context that renders the knowledge block for every kb_context
\* that is not empty, the signal of no context included
combined_context_unguarded(session_attributes, kb_context) ==
    Cat(session_context(session_attributes),
        IF kb_context # ""
        THEN CatAll(<< <<"Additional context from knowledge base:", "">>,
                       Lines(kb_context), <<"", "">> >>)
        ELSE <<"">>)

\* the combined_context of build_prompt
combined_context(session_attributes, kb_context) ==
    Cat(session_context(session_attributes),
        IF kb_context # "" /\ kb_context # NoKbContext
        THEN CatAll(<< <<"Additional context from knowledge base:", "">>,
                       Lines(kb_context), <<"", "">> >>)
        ELSE <<"">>)

\* build_prompt(person, question, session_attributes, voice_style, kb_context):
\* the prompt, as the sequence of its lines.  The default template has no
\* {conciseness_style} field, so the style drawn by get_conciseness_style
\* does not reach the prompt.
build_prompt(person, question, session_attributes, voice_style, kb_context) ==
    LET kw == [person |-> Lines(person),
               question |-> Lines(question),
               context |-> LinesStrip(combined_context(session_attributes, kb_context))]
        lines == FormatFrom(1, kw)
        voice_instructions == _get_voice_style_instructions(voice_style)
    IN IF voice_instructions = "" THEN lines
       ELSE IF Len(lines) > 1
       THEN <<lines[1]>> \o <<"", voice_instructions, "">> \o Tail(lines)
       ELSE lines \o <<"", voice_instructions>>

\* a retrieval that hands its error text on as context when the backend raises
_retrieve_kb_context_leaking(question, number_of_results, kb) ==
    IF kb.kind = "unconfigured"
    THEN [kb_context |-> NoKbContext, retrievals |-> 0]
    ELSE IF kb.kind = "raise"
    THEN [kb_context |-> "KB retrieval failed", retrievals |-> 1]
    ELSE IF Len(kb.passages) = 0
    THEN [kb_context |-> NoKbContext, retrievals |-> 1]
    ELSE [kb_context |->
              join("\n\n", [i \in DOMAIN kb.passages |-> strip(kb.passages[i])]),
          retrievals |-> 1]

\* _retrieve_kb_context(question, number_of_results) against a knowledge base
\* kb = [kind, passages]: unconfigured (no BEDROCK_KB_ID), raising, or
\* answering with passages
_retrieve_kb_context(question, number_of_results, kb) ==
    IF kb.kind = "unconfigured"
    THEN [kb_context |-> NoKbContext, retrievals |-> 0]
    ELSE IF kb.kind = "raise"
    THEN [kb_context |-> NoKbContext, retrievals |-> 1]
    ELSE IF Len(kb.passages) = 0
    THEN [kb_context |-> NoKbContext, retrievals |-> 1]
    ELSE [kb_context |->
              join("\n\n", [i \in DOMAIN kb.passages |-> strip(kb.passages[i])]),
          retrievals |-> 1]

\* question.strip().replace('\n', ' ').replace('\r', ' ')
sanitize(question) == replace(replace(strip(question), "\n", " "), "\r", " ")

\* the voice style query_bedrock works with: the request's, not the stored one
current_voice_style(voice_style, session_attributes) == voice_style

\* invoke_model tried a second time when the first call fails
invoke_model_retrying(bedrock) ==
    [invocations |-> IF bedrock.kind # "ok" THEN 2 ELSE 1,
     failed |-> bedrock.kind # "ok",
     text |-> bedrock.text]

\* the call of bedrock_client.invoke_model and the parsing of its response,
\* against a backend bedrock = [kind, text]: answering, raising, or answering
\* with a body that does not parse
invoke_model(bedrock) ==
    [invocations |-> 1,
     failed |-> bedrock.kind # "ok",
     text |-> bedrock.text]

\* the history kept whole, never truncated
keep_all_exchanges(conversation_history) == conversation_history

\* the history truncated at the wrong end: conversation_history[:3]
keep_first_exchanges(conversation_history) ==
    SubSeq(conversation_history, 1, Min(MaxHistory, Len(conversation_history)))

\* if len(conversation_history) > 3: conversation_history[-3:]
keep_last_exchanges(conversation_history) ==
    IF Len(conversation_history) > MaxHistory
    THEN LastOf(conversation_history, MaxHistory)
    ELSE conversation_history

\* the list under conversation_history after conversation_history.append(...)
appended_history(session_attributes, question, ai_response) ==
    Append(HistoryOf(session_attributes),
           [question |-> sanitize(question),
            answer |-> _trim_answer(ai_response, HistoryAnswerLength)])

\* the try branch of query_bedrock: the attributes it returns
attributes_on_success(session_attributes, question, ai_response, style) ==
    [k \in (DOMAIN session_attributes)
           \cup {"last_answer", "last_question", "current_voice_style",
                 "conversation_history"} |->
        CASE k = "last_answer" -> ai_response
          [] k = "last_question" -> sanitize(question)
          [] k = "current_voice_style" -> style
          [] k = "conversation_history" ->
               keep_last_exchanges(
                   appended_history(session_attributes, question, ai_response))
          [] OTHER -> session_attributes[k]]

\* the try branch of query_bedrock: what it leaves in the dict it was handed.
\* updated_attributes is a shallow copy, so the list under
\* conversation_history is the caller's own list and append() shows there.
argument_on_success(session_attributes, question, ai_response) ==
    IF Has(session_attributes, "conversation_history")
    THEN DictSet(session_attributes, "conversation_history",
                 appended_history(session_attributes, question, ai_response))
    ELSE session_attributes

\* an except branch that also starts the history over
attributes_on_error_reset(session_attributes) ==
    DictSet(DictPop(DictPop(session_attributes, "last_answer"), "last_question"),
            "conversation_history", << >>)

\* the except branch of query_bedrock: the attributes it returns
attributes_on_error(session_attributes) ==
    DictPop(DictPop(session_attributes, "last_answer"), "last_question")

\* query_bedrock once the prompt is built and the backend has answered
query_result(question, session_attributes, style, response_length, prompt, response) ==
    [ai_response |-> IF response.failed THEN FallbackMessage ELSE response.text,
     updated_attributes |->
         IF response.failed THEN attributes_on_error(session_attributes)
         ELSE attributes_on_success(session_attributes, question, response.text, style),
     argument_after |->
         IF response.failed THEN session_attributes
         ELSE argument_on_success(session_attributes, question, response.text),
     failed |-> response.failed,
     prompt |-> prompt,
     max_tokens |-> response_length,
     invocations |-> response.invocations]

\* query_bedrock(person, question, session_attributes, voice_style,
\*               kb_context, response_length) against the backend bedrock
query_bedrock(person, question, session_attributes, voice_style, kb_context, response_length, bedrock) ==
    query_result(question, session_attributes,
                 current_voice_style(voice_style, session_attributes),
                 response_length,
                 build_prompt(person, question, session_attributes,
                              current_voice_style(voice_style, session_attributes),
                              kb_context),
                 invoke_model(bedrock))

(***************************************************************************)
(* The requests of the model and the backends they meet.                   *)
(***************************************************************************)
Questions == {"Q" \o ToString(i) : i \in 1..NumQuestions}

\* the texts of the turns: questions, the empty text and a blank text
Texts == Questions \cup {"", "  "}

Answers == {"A" \o ToString(i) : i \in 1..NumAnswers}

\* the texts and the generation backends of the turns of the /chat route of
\* app/web/routes.py: texts of several lines, non-ASCII text, and the
\* characters JSON and HTML escape
RouteTexts == {"Q1", " a\nb\r "}

RouteAnswers == {" A1\nB1 ", "\\é\"<'日&"}

RouteBackends ==
    {[kind |-> "ok", text |-> a] : a \in RouteAnswers}
    \cup {[kind |-> "raise", text |-> ""]}

\* the voice_style of a request: << >> when the request carries none
RequestVoices == {<< >>} \cup {<<style>> : style \in VoiceStyles}

\* voice_style: str = "normal" (process_chat) and Form("normal") (the route)
voice_style_of(request) == IF request = << >> THEN "normal" ELSE request[1]

\* the retrieval backend of a turn: not configured, raising, or answering,
\* with passages or with none
KnowledgeBases ==
    {[kind |-> "unconfigured", passages |-> << >>],
     [kind |-> "raise", passages |-> << >>],
     [kind |-> "results", passages |-> << >>],
     [kind |-> "results", passages |-> <<"P1 ", "P2", "P3">>]}

\* the generation backend of a turn: answering, raising, or answering with a
\* body that does not parse
Backends ==
    {[kind |-> "ok", text |-> a] : a \in Answers}
    \cup {[kind |-> "raise", text |-> ""], [kind |-> "malformed", text |-> ""]}

(***************************************************************************)
(* ChatService.process_chat (app/services/chat_service.py).                *)
(***************************************************************************)
\* steps 1, 2 and 4 of process_chat and the parameters it asks the prompt
\* engineer for: what a turn derives from its text and the slots found in it
understand(text, slots) ==
    LET question_text ==
            IF strip(slots.question) # "" THEN strip(slots.question) ELSE strip(text)
    IN [person |-> normalize_person_name(default_person, slots.person),
        question_text |-> question_text,
        number_of_results |-> get_kb_query_params(question_text),
        response_length |-> calculate_response_length(question_text, max_tokens)]

\* ENABLE_KB_SUMMARIZATION is unset: PromptEngineer.enable_kb_summarization
enable_kb_summarization == FALSE

IsDigit(c) == IndexIn(Digits, c) # 0

\* \b(19|20)\d{2}\b matches at index i
YearAt(passage, i) ==
    /\ StartsAt(passage, i, "19") \/ StartsAt(passage, i, "20")
    /\ i + 3 <= Len(passage)
    /\ IsDigit(Chr(passage, i + 2))
    /\ IsDigit(Chr(passage, i + 3))
    /\ Boundary(passage, i)
    /\ Boundary(passage, i + 4)

\* re.findall(r'\b(19|20)\d{2}\b', passage) from index i: the pattern has one
\* group, so findall returns the text of that group for every match
RECURSIVE findall_years(_, _)
findall_years(passage, i) ==
    LET matches == {j \in i..Len(passage) : YearAt(passage, j)}
    IN IF matches = {} THEN << >>
       ELSE <<SubSeq(passage, Least(matches), Least(matches) + 1)>>
            \o findall_years(passage, Least(matches) + 4)

\* a < b for two strings of digits, as Python compares str
RECURSIVE str_less(_, _)
str_less(a, b) ==
    IF Len(b) = 0 THEN FALSE
    ELSE IF Len(a) = 0 THEN TRUE
    ELSE IF Chr(a, 1) = Chr(b, 1) THEN str_less(Tail(a), Tail(b))
    ELSE IndexIn(Digits, Chr(a, 1)) < IndexIn(Digits, Chr(b, 1))

\* min(dates) and max(dates) of a non-empty list
min_date(dates) ==
    dates[CHOOSE i \in DOMAIN dates : \A j \in DOMAIN dates : ~str_less(dates[j], dates[i])]

max_date(dates) ==
    dates[CHOOSE i \in DOMAIN dates : \A j \in DOMAIN dates : ~str_less(dates[i], dates[j])]

\* the index of the last character of the line that holds index k
LineEnd(passage, k) ==
    Least({e \in k..Len(passage) : e = Len(passage) \/ Chr(passage, e + 1) = "\n"})

\* where ([^\n]+) can start after [-•] at index i: \s* is greedy and gives
\* back whitespace until a character other than a line break follows
PointStarts(passage, i) ==
    {k \in (i + 1)..SpacesEnd(passage, i + 1) : k <= Len(passage) /\ Chr(passage, k) # "\n"}

Greatest(S) == CHOOSE i \in S : \A j \in S : j <= i

\* the character U+2022 of the pattern [-•], written with a character that
\* a string of this module can hold and that no passage uses otherwise
Bullet == "§"

\* re.findall(r'[-•]\s*([^\n]+)', passage) from index i
RECURSIVE findall_key_points(_, _)
findall_key_points(passage, i) ==
    LET matches == {j \in i..Len(passage) :
                        Chr(passage, j) \in {"-", Bullet} /\ PointStarts(passage, j) # {}}
        e == LineEnd(passage, Greatest(PointStarts(passage, Least(matches))))
    IN IF matches = {} THEN << >>
       ELSE <<SubSeq(passage, Greatest(PointStarts(passage, Least(matches))), e)>>
            \o findall_key_points(passage, e + 1)

\* one passage of the summary: "[date_range] key points" or
\* "[date_range] passage[:200]..."
summarize_passage(passage) ==
    LET dates == findall_years(passage, 1)
        date_range == IF Len(dates) = 0 THEN "Recent"
                      ELSE IF Len(dates) > 1
                           THEN min_date(dates) \o "-" \o max_date(dates)
                           ELSE dates[1]
        key_points == findall_key_points(passage, 1)
    IN IF Len(key_points) > 0
       THEN "[" \o date_range \o "] " \o join("; ", Slice(key_points, 0, 3))
       ELSE "[" \o date_range \o "] " \o Slice(passage, 0, 200) \o "..."

\* summarize_kb_context(passages) of a PromptEngineer whose
\* enable_kb_summarization is `enabled`
summarize_kb_context(enabled, passages) ==
    IF ~enabled \/ Len(passages) = 0 THEN join("\n\n", passages)
    ELSE join("\n\n", [i \in DOMAIN passages |-> summarize_passage(passages[i])])

\* passages = kb_context.split('\n\n')
parsed_passages(kb_context) == split(kb_context, "\n\n")

\* the KB context process_chat hands to query_bedrock
selected_kb_context(question_text, kb_context) ==
    IF kb_context # "" /\ kb_context # NoKbContext
    THEN LET selected ==
                 select_kb_context(question_text, parsed_passages(kb_context)).selected
         IN IF Len(selected) > 0
            THEN summarize_kb_context(enable_kb_summarization, selected)
            ELSE kb_context
    ELSE kb_context

\* retrieval and selection of the KB context of a turn
retrieve(request, kb) ==
    LET retrieved ==
            _retrieve_kb_context(request.question_text, request.number_of_results, kb)
    IN [kb_context |-> selected_kb_context(request.question_text, retrieved.kb_context),
        retrievals |-> retrieved.retrievals]

\* understand and retrieve over the requests of the model, worked out once
Understood ==
    [t \in Texts \cup RouteTexts |-> understand(t, _extract_intent_slots(t))]

Retrieved ==
    [t \in Texts \cup RouteTexts, kb \in KnowledgeBases |-> retrieve(Understood[t], kb)]

\* the return of process_chat when there is no question.  `session_state or
\* {}` is the caller's own dict unless that is empty, so what is written into
\* session_attributes shows in the caller's value: prior_after is that value
\* when the call returns.
clarification(session_state, session_attributes) ==
    [answer |-> ClarificationMessage,
     state |-> session_attributes,
     prior_after |-> IF session_state # EmptyDict THEN session_attributes
                     ELSE session_state,
     outcome |-> "clarification",
     question |-> "",
     prompt |-> << >>,
     sent_tokens |-> 0,
     invocations |-> 0,
     retrievals |-> 0]

\* step 6 of process_chat: {**session_attributes, **updated_attributes}, with
\* session_attributes as query_bedrock left it
generated(session_state, request, retrieved, result) ==
    [answer |-> result.ai_response,
     state |-> DictMerge(result.argument_after, result.updated_attributes),
     prior_after |-> IF session_state # EmptyDict THEN result.argument_after
                     ELSE session_state,
     outcome |-> IF result.failed THEN "failure" ELSE "success",
     question |-> request.question_text,
     prompt |-> result.prompt,
     sent_tokens |-> result.max_tokens,
     invocations |-> result.invocations,
     retrievals |-> retrieved.retrievals]

\* a step 3 that writes the request's style only when none is stored
keep_stored_voice_style(session_state, voice_style) ==
    IF Has(session_state, "current_voice_style") THEN session_state
    ELSE DictSet(session_state, "current_voice_style", voice_style)

\* step 3 of process_chat: session_attributes = session_state or {};
\* session_attributes['current_voice_style'] = voice_style
with_voice_style(session_state, voice_style) ==
    DictSet(session_state, "current_voice_style", voice_style)

\* process_chat from step 3 on
respond(request, retrieved, session_state, voice_style, bedrock) ==
    IF request.question_text = ""
    THEN clarification(session_state, with_voice_style(session_state, voice_style))
    ELSE generated(session_state, request, retrieved,
             query_bedrock(request.person, request.question_text,
                           with_voice_style(session_state, voice_style),
                           voice_style, retrieved.kb_context, request.response_length,
                           bedrock))

\* process_chat(request_id, session_id, text, session_state, voice_style)
\* against the retrieval backend kb and the generation backend bedrock
process_chat(text, session_state, voice_style, kb, bedrock) ==
    respond(Understood[text], Retrieved[text, kb], session_state, voice_style, bedrock)

(***************************************************************************)
(* The session: a client that calls process_chat turn after turn and hands *)
(* each turn the state the turn before returned.                           *)
(***************************************************************************)
VARIABLES
    stored,     \* the session state the client holds
    previous,   \* the outcome of the turn that returned it
    turn        \* the turn that has returned and is not yet stored

vars == <<stored, previous, turn>>

NoTurn == [outcome |-> "none"]

Init ==
    /\ stored = EmptyDict
    /\ previous = "none"
    /\ turn = NoTurn

\* one turn: await chat_service.process_chat(...)
ProcessChat ==
    /\ turn = NoTurn
    /\ \E t \in Texts, v \in RequestVoices, kb \in KnowledgeBases, b \in Backends :
         \E r \in {process_chat(t, stored, voice_style_of(v), kb, b)} :
           turn' = [text |-> t,
                    voice |-> v,
                    kb |-> kb,
                    after |-> previous,
                    prior |-> stored,
                    prior_after |-> r.prior_after,
                    state |-> r.state,
                    answer |-> r.answer,
                    outcome |-> r.outcome,
                    question |-> r.question,
                    prompt |-> r.prompt,
                    sent_tokens |-> r.sent_tokens,
                    invocations |-> r.invocations,
                    retrievals |-> r.retrievals]
    /\ UNCHANGED <<stored, previous>>

\* the client keeps the state the turn returned for its next request
ClientStore ==
    /\ turn # NoTurn
    /\ stored' = turn.state
    /\ previous' = turn.outcome
    /\ turn' = NoTurn

Next == ProcessChat \/ ClientStore

Spec == Init /\ [][Next]_vars

(***************************************************************************)
(* The /chat endpoint of app/main.py: the recognizer (Lex) is asked first, *)
(* and generation (app/ai_middleware.py) only when it has no answer.  The  *)
(* session state of this endpoint is the sessionState dict that travels to *)
(* the recognizer and back; the model keeps its sessionAttributes and      *)
(* takes the recognizer to hand back the attributes it was sent.  The      *)
(* prompt of this stack is not modelled.                                   *)
(***************************************************************************)
\* html.escape(s)
html_escape(s) ==
    replace(replace(replace(replace(replace(s, "&", "&amp;"), "<", "&lt;"),
                            ">", "&gt;"), "\"", "&quot;"), "'", "&#x27;")

\* the max_length of _trim_answer in ai_middleware
MiddlewareAnswerLength == 1200

\* _trim_answer(answer, max_length) of ai_middleware
middleware_trim_answer(answer, max_length) ==
    IF Len(strip(answer)) <= max_length THEN strip(answer)
    ELSE Slice(strip(answer), 0, max_length - 3) \o "..."

PlainText(content) == [contentType |-> "PlainText", content |-> content]

\* the messages of a recognizer response: none, plain texts, a blank text,
\* an empty text, a text with markup and margins, two texts, a response card
LexMessages ==
    {<< >>,
     <<PlainText("M1")>>,
     <<PlainText(" ")>>,
     <<PlainText("")>>,
     <<PlainText(" <M1> ")>>,
     <<PlainText("M1"), PlainText("M2")>>,
     <<[contentType |-> "ImageResponseCard"]>>}

\* the question slot of interpretations[0]: "" when there is none
LexQuestions == {"", "  ", " Q1", "Q2"}

\* str(exc) of an exception the recognizer's client raises
LexError ==
    "An error occurred (AccessDeniedException) when calling the RecognizeText operation"

\* what client.recognize_text answers, or its raising
LexResponses ==
    {[kind |-> "ok", messages |-> m, question |-> q] :
         m \in LexMessages, q \in LexQuestions}
    \cup {[kind |-> "raise", messages |-> << >>, question |-> "",
           error |-> LexError]}

\* the generation backend of ai_middleware: answering, answering without
\* content, raising, or answering with a body that does not parse
MiddlewareBackends == Backends \cup {[kind |-> "empty", text |-> ""]}

\* LexChatClient.recognize_text: sessionState is sent when truthy, and the
\* sessionState of the response is handed on
recognize_text(session_state, lex) ==
    [messages |-> lex.messages,
     sessionState |-> IF session_state # EmptyDict THEN session_state ELSE EmptyDict,
     question |-> lex.question]

\* the texts chat collects from one message of the recognizer
message_texts(msg) ==
    IF Has(msg, "content") THEN <<msg["content"]>>
    ELSE IF Has(msg, "text") /\ msg["text"] # "" THEN <<msg["text"]>>
    ELSE << >>

\* bot_texts: the texts chat collects from the messages of the recognizer
RECURSIVE bot_texts(_)
bot_texts(messages) ==
    IF Len(messages) = 0 THEN << >>
    ELSE message_texts(messages[1]) \o bot_texts(Tail(messages))

\* raw_bot_text = "\n".join(bot_texts).strip()
raw_bot_text(messages) == strip(join("\n", bot_texts(messages)))

\* a recognizer whose answer is never taken
lex_never_answers(messages) == FALSE

\* `if messages:` and `if raw_bot_text:`: the recognizer has answered
lex_has_answered(messages) == Len(messages) > 0 /\ raw_bot_text(messages) # ""

\* _get_session_attributes(resp)
_get_session_attributes(resp) ==
    IF Has(resp.sessionState, "sessionAttributes")
    THEN resp.sessionState["sessionAttributes"]
    ELSE EmptyDict

\* _update_session_attributes(resp, updated_attributes): resp afterwards
_update_session_attributes(resp, updated_attributes) ==
    [resp EXCEPT !.sessionState =
         DictSet(resp.sessionState, "sessionAttributes", updated_attributes)]

MiddlewareNoContent ==
    "I apologize, but I couldn't generate a response. Please try asking about experience, skills, or leadership style."

MiddlewareFallback ==
    "I'm having trouble connecting to my AI service right now. Please try asking about experience, skills, or leadership style."

\* the try branch of query_bedrock (ai_middleware) once the backend answered
middleware_answered(question, session_attributes, ai_response) ==
    [ai_response |-> ai_response,
     updated_attributes |->
         DictSet(DictSet(session_attributes, "last_answer",
                         middleware_trim_answer(ai_response, MiddlewareAnswerLength)),
                 "last_question", sanitize(question)),
     failed |-> FALSE,
     invocations |-> 1]

\* query_bedrock(person, question, session_attributes) of ai_middleware
middleware_query_bedrock(question, session_attributes, bedrock) ==
    IF bedrock.kind = "ok"
    THEN middleware_answered(question, session_attributes, bedrock.text)
    ELSE IF bedrock.kind = "empty"
    THEN middleware_answered(question, session_attributes, MiddlewareNoContent)
    ELSE [ai_response |-> MiddlewareFallback,
          updated_attributes |-> EmptyDict,
          failed |-> TRUE,
          invocations |-> 1]

\* _get_bedrock_response(resp) once query_bedrock has returned
bedrock_answered(resp, result) ==
    [text |-> result.ai_response,
     resp |-> _update_session_attributes(resp, result.updated_attributes),
     outcome |-> IF result.failed THEN "failure" ELSE "success",
     invocations |-> result.invocations]

\* _get_bedrock_response(resp): the text it returns and resp afterwards
_get_bedrock_response(resp, bedrock) ==
    IF strip(resp.question) # ""
    THEN bedrock_answered(resp,
             middleware_query_bedrock(strip(resp.question),
                                      _get_session_attributes(resp), bedrock))
    ELSE [text |-> ClarificationMessage,
          resp |-> _update_session_attributes(resp, EmptyDict),
          outcome |-> "clarification",
          invocations |-> 0]

\* the HTML fragment of the HTMX reply
bot_bubble(text) ==
    "<div class=\"message message-bot fade-in\"><div class=\"bubble\">"
        \o html_escape(text) \o "</div></div>"

\* the reply of chat when the recognizer has answered.  The HTMX reply is an
\* HTML fragment and carries no session state.
direct_reply(mode, resp) ==
    [reply |-> IF mode = "htmx" THEN bot_bubble(raw_bot_text(resp.messages))
               ELSE resp.messages,
     answer |-> raw_bot_text(resp.messages),
     status_code |-> 200,
     recognitions |-> 1,
     carries_state |-> mode = "json",
     state |-> resp.sessionState,
     outcome |-> "direct",
     invocations |-> 0]

\* the reply of chat when _get_bedrock_response has answered
bedrock_reply(mode, answered) ==
    [reply |-> IF mode = "htmx" THEN bot_bubble(answered.text)
               ELSE <<[content |-> <<[text |-> answered.text]>>]>>,
     answer |-> answered.text,
     status_code |-> 200,
     recognitions |-> 1,
     carries_state |-> mode = "json",
     state |-> answered.resp.sessionState,
     outcome |-> answered.outcome,
     invocations |-> answered.invocations]

\* chat once the recognizer has answered the call
chat_reply(mode, resp, bedrock) ==
    IF lex_has_answered(resp.messages) THEN direct_reply(mode, resp)
    ELSE bedrock_reply(mode, _get_bedrock_response(resp, bedrock))

\* str(exc) of the ValidationError ChatRequest(**payload) raises
PayloadError == "validation error for ChatRequest"

\* the session_id and the text of a request, << >> when the request has none
ChatRequests ==
    {[session_id |-> i, text |-> t] :
         i \in {<< >>, <<"s1">>}, t \in {<< >>, <<"">>, <<"hello">>}}

\* the except branch of chat: HTTPException(status_code=500, detail=str(exc))
chat_failed(outcome, detail, recognitions) ==
    [reply |-> [status_code |-> 500, detail |-> detail],
     answer |-> detail,
     status_code |-> 500,
     recognitions |-> recognitions,
     carries_state |-> FALSE,
     state |-> EmptyDict,
     outcome |-> outcome,
     invocations |-> 0]

\* chat(request, session_id, text, session_state): an HTMX form post (taken
\* to carry no session_state), whose missing session_id and text are
\* "default" and "", or a JSON request, whose payload ChatRequest validates;
\* whatever is raised on the way becomes a 500
chat(mode, request, session_state, lex, bedrock) ==
    IF mode = "json" /\ (request.session_id = << >> \/ request.text = << >>)
    THEN chat_failed("invalid", PayloadError, 0)
    ELSE IF lex.kind = "raise"
    THEN chat_failed("error", lex.error, 1)
    ELSE chat_reply(mode,
                    recognize_text(IF mode = "htmx" THEN EmptyDict ELSE session_state,
                                   lex),
                    bedrock)

\* one turn of the /chat endpoint of app/main.py
Chat ==
    /\ turn = NoTurn
    /\ \E mode \in {"htmx", "json"}, request \in ChatRequests,
          lex \in LexResponses, b \in MiddlewareBackends :
         \E r \in {chat(mode, request, stored, lex, b)} :
           turn' = [mode |-> mode,
                    request |-> request,
                    status_code |-> r.status_code,
                    recognitions |-> r.recognitions,
                    messages |-> lex.messages,
                    after |-> previous,
                    prior |-> stored,
                    reply |-> r.reply,
                    answer |-> r.answer,
                    carries_state |-> r.carries_state,
                    state |-> r.state,
                    outcome |-> r.outcome,
                    invocations |-> r.invocations]
    /\ UNCHANGED <<stored, previous>>

\* the client keeps the state of the reply when the reply carries one
ClientKeep ==
    /\ turn # NoTurn
    /\ stored' = IF turn.carries_state THEN turn.state ELSE stored
    /\ previous' = turn.outcome
    /\ turn' = NoTurn

NextLex == Chat \/ ClientKeep

SpecLex == Init /\ [][NextLex]_vars

(***************************************************************************)
(* The response length policy on its own: calculate_response_length is     *)
(* applied to a question and a cap.                                        *)
(***************************************************************************)
LengthQuestions ==
    {"hi", " Hello ", "THANKS", "thank you", "hi there",
     "what is your education?", "tell me about your skills",
     "how did your career start?", "what is your experience?",
     "tell me about your background", "tell me your story",
     "show me everything", "random question", ""}

LengthCaps == {50, 100, 150, 200, 500, 650, 1000}

LengthInputs ==
    {[op |-> "input", question |-> q, cap |-> c] :
         q \in LengthQuestions, c \in LengthCaps}

InitLength ==
    /\ stored = EmptyDict
    /\ previous = "none"
    /\ turn \in LengthInputs

CalculateResponseLength ==
    /\ turn.op = "input"
    /\ turn' = [op |-> "calculate_response_length",
                question |-> turn.question,
                cap |-> turn.cap,
                result |-> calculate_response_length(turn.question, turn.cap)]
    /\ UNCHANGED <<stored, previous>>

NextLength == CalculateResponseLength

SpecLength == InitLength /\ [][NextLength]_vars

(***************************************************************************)
(* Person normalization on its own: the normalize_person_name of           *)
(* AIService and the one of app/ai_middleware.py are applied to a name     *)
(* under a configured DEFAULT_PERSON.                                      *)
(***************************************************************************)
\* normalize_person_name(person_value) of app/ai_middleware.py, DEFAULT_PERSON
\* being `configured`; None is ""
middleware_normalize_person_name(configured, person_value) ==
    IF strip(person_value) = "" THEN configured
    ELSE LET name_lower == lower(strip(person_value))
         IN IF name_lower \in {"charlie", "chaz", "charles o'brien",
                               "charles obrien", "charles o brien"}
            THEN "Charles"
            ELSE IF name_lower = "charles" \/ StartsAt(name_lower, 1, "charles ")
            THEN "Charles"
            ELSE title(strip(person_value))

PersonValues ==
    {"", "  ", "Charles", "charles", " CHARLES ", "Charlie", " charlie",
     "CHAZ", "chaz", "Charles O'Brien", "charles obrien", "Charles O Brien",
     " charles o'brien ", "maria", "MARIA", " maria ", "jo ann", "o'neil",
     "charlesworth", "charles smith", "Charles Smith", "bob"}

PersonInputs ==
    {[op |-> "input", environment |-> e, person_value |-> v] :
         e \in Environments, v \in PersonValues}

PersonTexts ==
    {"what are your skills?", "tell me about maria", "tell me about charlie",
     "chaz's skills", "hello"}

PersonTextInputs ==
    {[op |-> "text", environment |-> e, text |-> t] :
         e \in Environments, t \in PersonTexts}

\* steps 1 and 2 of process_chat: the person it goes on with, the
\* default_person of its AIService being `configured`
person_passed(configured, text) ==
    normalize_person_name(configured, _extract_intent_slots(text).person)

InitPerson ==
    /\ stored = EmptyDict
    /\ previous = "none"
    /\ turn \in PersonInputs \cup PersonTextInputs

NormalizePersonName ==
    /\ turn.op = "input"
    /\ turn' = [op |-> "AIService.normalize_person_name",
                environment |-> turn.environment,
                person_value |-> turn.person_value,
                result |-> normalize_person_name(
                               getenv_default_person(turn.environment),
                               turn.person_value)]
    /\ UNCHANGED <<stored, previous>>

MiddlewareNormalizePersonName ==
    /\ turn.op = "input"
    /\ turn' = [op |-> "ai_middleware.normalize_person_name",
                environment |-> turn.environment,
                person_value |-> turn.person_value,
                result |-> middleware_normalize_person_name(
                               getenv_default_person(turn.environment),
                               turn.person_value)]
    /\ UNCHANGED <<stored, previous>>

ProcessChatPerson ==
    /\ turn.op = "text"
    /\ turn' = [op |-> "process_chat",
                environment |-> turn.environment,
                text |-> turn.text,
                person |-> person_passed(getenv_default_person(turn.environment),
                                         turn.text)]
    /\ UNCHANGED <<stored, previous>>

\* the name AIService.normalize_person_name returned is normalized once more
\* by the same AIService
NormalizePersonNameAgain ==
    /\ turn.op = "AIService.normalize_person_name"
    /\ turn' = [op |-> "AIService.normalize_person_name twice",
                environment |-> turn.environment,
                person_value |-> turn.person_value,
                once |-> turn.result,
                result |-> normalize_person_name(
                               getenv_default_person(turn.environment),
                               turn.result)]
    /\ UNCHANGED <<stored, previous>>

NextPerson ==
    \/ NormalizePersonName
    \/ MiddlewareNormalizePersonName
    \/ ProcessChatPerson
    \/ NormalizePersonNameAgain

SpecPerson == InitPerson /\ [][NextPerson]_vars

(***************************************************************************)
(* The /chat route of app/web/routes.py between turns: the reply carries   *)
(* the session state as JSON text in an HTML attribute, the client reads   *)
(* the attribute and posts the text back as session_state, and the route   *)
(* parses it.  json.dumps, json.loads and html.escape are modelled on the  *)
(* text, character by character.                                           *)
(***************************************************************************)
\* the \uXXXX escapes of the non-ASCII characters of the model
UnicodeEscapes == ("é" :> "00e9") @@ ("日" :> "65e5")

\* json.dumps of one character without the escape of the backslash
encode_char_raw_backslash(c) ==
    CASE c = "\"" -> "\\\""
      [] c = "\n" -> "\\n"
      [] c = "\r" -> "\\r"
      [] c = "\t" -> "\\t"
      [] c \in DOMAIN UnicodeEscapes -> "\\u" \o UnicodeEscapes[c]
      [] OTHER -> c

\* json.dumps of one character of a str (ensure_ascii=True)
encode_char(c) ==
    CASE c = "\"" -> "\\\""
      [] c = "\\" -> "\\\\"
      [] c = "\n" -> "\\n"
      [] c = "\r" -> "\\r"
      [] c = "\t" -> "\\t"
      [] c \in DOMAIN UnicodeEscapes -> "\\u" \o UnicodeEscapes[c]
      [] OTHER -> c

RECURSIVE encode_chars(_)
encode_chars(s) ==
    IF Len(s) = 0 THEN ""
    ELSE IF Len(s) = 1 THEN encode_char(s)
    ELSE encode_chars(SubSeq(s, 1, Len(s) \div 2))
         \o encode_chars(SubSeq(s, Len(s) \div 2 + 1, Len(s)))

\* json.dumps(s) for a str
dumps_str(s) == "\"" \o encode_chars(s) \o "\""

\* json.dumps(entry) for an entry of conversation_history
dumps_entry(entry) ==
    "{\"question\": " \o dumps_str(entry.question)
    \o ", \"answer\": " \o dumps_str(entry.answer) \o "}"

\* json.dumps(d[key]): a list of entries under conversation_history, a str
\* under every other key
dumps_item(d, key) ==
    dumps_str(key) \o ": "
    \o (IF key = "conversation_history"
        THEN "[" \o join(", ", [i \in DOMAIN d[key] |-> dumps_entry(d[key][i])]) \o "]"
        ELSE dumps_str(d[key]))

\* the keys of a session state; the dicts of the model keep no insertion
\* order, so json.dumps writes them in this one
StateKeys ==
    <<"current_voice_style", "last_answer", "last_question", "conversation_history">>

\* json.dumps(d) for a session state
json_dumps(d) ==
    LET keys == SelectSeq(StateKeys, LAMBDA k : Has(d, k))
    IN "{" \o join(", ", [i \in DOMAIN keys |-> dumps_item(d, keys[i])]) \o "}"

\* the first position from i on that holds no white space
RECURSIVE skip_whitespace(_, _)
skip_whitespace(s, i) ==
    IF i <= Len(s) /\ Chr(s, i) \in Whitespace THEN skip_whitespace(s, i + 1) ELSE i

\* the character a backslash escape of JSON stands for
decode_escape(c) ==
    CASE c = "n" -> "\n"
      [] c = "r" -> "\r"
      [] c = "t" -> "\t"
      [] OTHER -> c

\* the character \uXXXX stands for
decode_unicode(hex) ==
    CHOOSE c \in DOMAIN UnicodeEscapes : UnicodeEscapes[c] = hex

\* json.decoder.scanstring: the str whose text starts at i, after the opening
\* quote, and the position after its closing quote
RECURSIVE scanstring(_, _, _)
scanstring(s, i, chars) ==
    IF Chr(s, i) = "\"" THEN [value |-> chars, end |-> i + 1]
    ELSE IF Chr(s, i) # "\\" THEN scanstring(s, i + 1, chars \o Chr(s, i))
    ELSE IF Chr(s, i + 1) = "u"
    THEN scanstring(s, i + 6, chars \o decode_unicode(SubSeq(s, i + 2, i + 5)))
    ELSE scanstring(s, i + 2, chars \o decode_escape(Chr(s, i + 1)))

RECURSIVE scan_value(_, _)
RECURSIVE scan_array(_, _, _)
RECURSIVE scan_object(_, _, _)

\* the rest of a JSON array from its item at i on
scan_array(s, i, items) ==
    LET item == scan_value(s, i)
        j == skip_whitespace(s, item.end)
    IN IF Chr(s, j) = ","
       THEN scan_array(s, j + 1, Append(items, item.value))
       ELSE [value |-> Append(items, item.value), end |-> j + 1]

\* the rest of a JSON object from its member at i on
scan_object(s, i, members) ==
    LET key == scanstring(s, skip_whitespace(s, i) + 1, "")
        item == scan_value(s, skip_whitespace(s, key.end) + 1)
        j == skip_whitespace(s, item.end)
    IN IF Chr(s, j) = ","
       THEN scan_object(s, j + 1, DictSet(members, key.value, item.value))
       ELSE [value |-> DictSet(members, key.value, item.value), end |-> j + 1]

\* the JSON value at i: a str, a list or a dict (a session state holds no
\* other kind)
scan_value(s, i) ==
    LET j == skip_whitespace(s, i)
    IN IF Chr(s, j) = "\"" THEN scanstring(s, j + 1, "")
       ELSE IF Chr(s, j) = "["
       THEN (IF Chr(s, skip_whitespace(s, j + 1)) = "]"
             THEN [value |-> << >>, end |-> skip_whitespace(s, j + 1) + 1]
             ELSE scan_array(s, j + 1, << >>))
       ELSE (IF Chr(s, skip_whitespace(s, j + 1)) = "}"
             THEN [value |-> EmptyDict, end |-> skip_whitespace(s, j + 1) + 1]
             ELSE scan_object(s, j + 1, EmptyDict))

\* json.loads(s)
json_loads(s) == scan_value(s, 1).value

\* the character a character reference of html.escape stands for, and the
\* text after the reference
unescape_reference(s) ==
    CASE StartsAt(s, 1, "amp;") -> "&" \o SubSeq(s, 5, Len(s))
      [] StartsAt(s, 1, "lt;") -> "<" \o SubSeq(s, 4, Len(s))
      [] StartsAt(s, 1, "gt;") -> ">" \o SubSeq(s, 4, Len(s))
      [] StartsAt(s, 1, "quot;") -> "\"" \o SubSeq(s, 6, Len(s))
      [] StartsAt(s, 1, "#x27;") -> "'" \o SubSeq(s, 6, Len(s))
      [] OTHER -> "&" \o s

\* the value of data-session-state as the client reads it from the reply:
\* the attribute with its character references resolved
attribute_value(escaped) ==
    LET parts == split(escaped, "&")
    IN parts[1] \o join("", [i \in 1..(Len(parts) - 1) |-> unescape_reference(parts[i + 1])])

\* session_state_json of the reply: json.dumps(updated_session_state) if
\* updated_session_state else "{}"
session_state_json(updated_session_state) ==
    IF updated_session_state = EmptyDict THEN "{}" ELSE json_dumps(updated_session_state)

\* json.loads(s) returns: of the texts of the model, those that open a str,
\* a list or a dict; on the others it raises JSONDecodeError
json_decodes(s) == Chr(s, skip_whitespace(s, 1)) \in {"\"", "[", "{"}

\* type(json.loads(s)) for a text json.loads decodes
decoded_type(s) ==
    CASE Chr(s, skip_whitespace(s, 1)) = "\"" -> "str"
      [] Chr(s, skip_whitespace(s, 1)) = "[" -> "list"
      [] OTHER -> "dict"

\* parsed_session_state of the request: None, here the empty dict, when no
\* session_state is posted or json.loads raises JSONDecodeError
parsed_session_state(session_state) ==
    IF session_state = "" \/ ~json_decodes(session_state) THEN EmptyDict
    ELSE json_loads(session_state)

InitRoute ==
    /\ stored = ""
    /\ previous = EmptyDict
    /\ turn = NoTurn

\* one request to the route: the posted session_state is parsed, the turn
\* runs, and the reply carries the state it returned
RouteChat ==
    /\ turn = NoTurn
    /\ \E prior \in {parsed_session_state(stored)} :
         \E t \in RouteTexts, b \in RouteBackends :
           \E r \in {process_chat(t, prior, "normal", [kind |-> "unconfigured", passages |-> << >>], b)} :
             turn' = [text |-> t,
                      generated |-> b.text,
                      before |-> previous,
                      prior |-> prior,
                      state |-> r.state,
                      answer |-> r.answer,
                      outcome |-> r.outcome,
                      attribute |-> html_escape(session_state_json(r.state))]
    /\ UNCHANGED <<stored, previous>>

\* the client reads data-session-state from the reply and keeps it for its
\* next request
ClientRead ==
    /\ turn # NoTurn
    /\ stored' = attribute_value(turn.attribute)
    /\ previous' = turn.state
    /\ turn' = NoTurn

NextRoute == RouteChat \/ ClientRead

SpecRoute == InitRoute /\ [][NextRoute]_vars

(***************************************************************************)
(* Prompt composition on its own: build_prompt is applied to a person, a   *)
(* question, session attributes, a voice style and a KB context.           *)
(***************************************************************************)
PromptExchanges ==
    [i \in 1..4 |-> [question |-> "asked " \o ToString(i),
                     answer |-> "answered " \o ToString(i)]]

\* the session attributes build_prompt is handed: none, some without a
\* history, and histories of 0 to 4 exchanges
PromptAttributes ==
    {EmptyDict, [current_voice_style |-> "normal"]}
    \cup {[current_voice_style |-> "normal",
           conversation_history |-> SubSeq(PromptExchanges, 1, n)] : n \in 0..4}

PromptVoices == {"normal", "pirate", "robot"}

\* the kb_context argument: << >> is None
PromptContexts == {<< >>, <<"">>, <<NoKbContext>>, <<"P1\n\nP2">>}

\* the retrieval backends build_prompt meets when it is handed no kb_context
PromptKnowledgeBases ==
    {[kind |-> "unconfigured", passages |-> << >>],
     [kind |-> "raise", passages |-> << >>],
     [kind |-> "results", passages |-> << >>]}

PromptInputs ==
    {[op |-> "input", person |-> "Charles", question |-> q, attributes |-> a,
      voice_style |-> v, kb_context |-> c, kb |-> kb] :
         q \in {"what now?", "and then?"}, a \in PromptAttributes,
         v \in PromptVoices, c \in PromptContexts, kb \in PromptKnowledgeBases}

\* if kb_context is None: kb_context = self._retrieve_kb_context(question)
provided_kb_context(kb_context, question, kb) ==
    IF kb_context = << >> THEN _retrieve_kb_context(question, 3, kb).kb_context
    ELSE kb_context[1]

InitPrompt ==
    /\ stored = EmptyDict
    /\ previous = "none"
    /\ turn \in PromptInputs

BuildPrompt ==
    /\ turn.op = "input"
    /\ turn' = [turn EXCEPT
                  !.op = "build_prompt",
                  !.kb_context = <<provided_kb_context(turn.kb_context, turn.question, turn.kb)>>]
               @@ [prompt |-> build_prompt(turn.person, turn.question, turn.attributes,
                                           turn.voice_style,
                                           provided_kb_context(turn.kb_context,
                                                               turn.question, turn.kb))]
    /\ UNCHANGED <<stored, previous>>

NextPrompt == BuildPrompt

SpecPrompt == InitPrompt /\ [][NextPrompt]_vars

(***************************************************************************)
(* The context selector on its own: select_kb_context and                  *)
(* get_kb_query_params are applied to a question and a list of passages.   *)
(***************************************************************************)
SelectorQuestions ==
    {"tell me about your background", "what is your experience?",
     "what are your skills?", "hello", "CAREER story", "list your degrees",
     "show me your history", "how are you?"}

SelectorPassages == {SubSeq(<<"P1", "P2", "P3", "P4">>, 1, n) : n \in 0..4}

SelectorInputs ==
    {[op |-> "input", question |-> q, kb_passages |-> p] :
         q \in SelectorQuestions, p \in SelectorPassages}

InitSelector ==
    /\ stored = EmptyDict
    /\ previous = "none"
    /\ turn \in SelectorInputs

SelectKbContext ==
    /\ turn.op = "input"
    /\ \E r \in {select_kb_context(turn.question, turn.kb_passages)} :
         turn' = [op |-> "select_kb_context",
                  question |-> turn.question,
                  kb_passages |-> turn.kb_passages,
                  selected |-> r.selected,
                  query_results |-> r.query_results]
    /\ UNCHANGED <<stored, previous>>

GetKbQueryParams ==
    /\ turn.op = "input"
    /\ turn' = [op |-> "get_kb_query_params",
                question |-> turn.question,
                kb_passages |-> turn.kb_passages,
                number_of_results |-> get_kb_query_params(turn.question)]
    /\ UNCHANGED <<stored, previous>>

NextSelector == SelectKbContext \/ GetKbQueryParams

SpecSelector == InitSelector /\ [][NextSelector]_vars

(***************************************************************************)
(* Concurrent turns on the one ChatService of app/web/routes.py.  The      *)
(* dicts of the turns live in a heap: each request has the dict decoded    *)
(* from its session_state, and process_chat works through a reference to   *)
(* a dict.  A turn advances in steps, between its calls to the backends,   *)
(* and the steps of the turns interleave freely.                           *)
(***************************************************************************)
Requests == {"r1", "r2"}

\* the attributes AIService.__init__ sets and the turns read
ServiceInstance == [max_tokens |-> max_tokens, default_person |-> default_person]

\* the session states the requests decode: none, and the state a first
\* successful turn returns
ConcurrentStates ==
    {EmptyDict,
     [current_voice_style |-> "normal",
      last_question |-> "Q2",
      last_answer |-> "A2",
      conversation_history |-> <<[question |-> "Q2", answer |-> "A2"]>>]}

ConcurrentTexts == {"Q1", ""}

ConcurrentVoices == {"normal", "pirate"}

ConcurrentBackends == {[kind |-> "ok", text |-> "A1"], [kind |-> "raise", text |-> ""]}

NoKnowledgeBase == [kind |-> "unconfigured", passages |-> << >>]

Idle == [pc |-> "idle"]

\* a session_attributes taken from a dict all the turns without a state share
working_reference_shared(request, session_state) ==
    IF session_state = EmptyDict THEN "shared" ELSE request

\* session_attributes = session_state or {}: the dict the turn works on is
\* the request's own, decoded or new
working_reference(request, session_state) == request

InitConcurrent ==
    /\ stored = [r \in Requests \cup {"shared"} |-> EmptyDict]
    /\ previous = ServiceInstance
    /\ turn = [r \in Requests |-> Idle]

\* steps 1 to 3 of process_chat, and its return when there is no question
Begin(r) ==
    /\ turn[r].pc = "idle"
    /\ \E text \in ConcurrentTexts, session_state \in ConcurrentStates,
          voice_style \in ConcurrentVoices, bedrock \in ConcurrentBackends :
         LET ref == working_reference(r, session_state)
             decoded == [stored EXCEPT ![r] = session_state]
             heap == [decoded EXCEPT ![ref] = with_voice_style(decoded[ref], voice_style)]
             call == [text |-> text, session_state |-> session_state,
                      voice_style |-> voice_style, bedrock |-> bedrock, ref |-> ref]
         IN IF Understood[text].question_text = ""
            THEN /\ stored' = heap
                 /\ turn' = [turn EXCEPT ![r] =
                        [pc |-> "returned", call |-> call,
                         answer |-> clarification(session_state, heap[ref]).answer,
                         state |-> clarification(session_state, heap[ref]).state]]
            ELSE /\ stored' = heap
                 /\ turn' = [turn EXCEPT ![r] = [pc |-> "understood", call |-> call]]
    /\ UNCHANGED previous

\* the call of _retrieve_kb_context and the selection of its passages
Retrieve(r) ==
    /\ turn[r].pc = "understood"
    /\ turn' = [turn EXCEPT ![r] =
           [pc |-> "retrieved", call |-> turn[r].call,
            retrieved |-> retrieve(Understood[turn[r].call.text], NoKnowledgeBase)]]
    /\ UNCHANGED <<stored, previous>>

\* the call of query_bedrock on the dict the turn works on, and the return
\* of process_chat
Generate(r) ==
    /\ turn[r].pc = "retrieved"
    /\ LET call == turn[r].call
           request == Understood[call.text]
       IN \E result \in {query_bedrock(request.person, request.question_text,
                                       stored[call.ref], call.voice_style,
                                       turn[r].retrieved.kb_context,
                                       request.response_length, call.bedrock)} :
            /\ stored' = [stored EXCEPT ![call.ref] = result.argument_after]
            /\ turn' = [turn EXCEPT ![r] =
                   [pc |-> "returned", call |-> call,
                    answer |-> result.ai_response,
                    state |-> DictMerge(result.argument_after, result.updated_attributes)]]
    /\ UNCHANGED previous

\* the reply is sent and the dict of the request is dropped
Reply(r) ==
    /\ turn[r].pc = "returned"
    /\ turn' = [turn EXCEPT ![r] = Idle]
    /\ stored' = [stored EXCEPT ![r] = EmptyDict]
    /\ UNCHANGED previous

NextConcurrent ==
    \E r \in Requests : Begin(r) \/ Retrieve(r) \/ Generate(r) \/ Reply(r)

SpecConcurrent == InitConcurrent /\ [][NextConcurrent]_vars

(***************************************************************************)
(* The /chat route of app/web/routes.py on a session_state the client made *)
(* up: the text is parsed and what it decodes to goes to process_chat.     *)
(***************************************************************************)
\* session_state texts with no conversation_history: none, text that is not
\* JSON, and JSON values with other content
MalformedStates ==
    {"", "oops", "{}", "{\"invalid\": \"json\"}", "[\"x\"]", "\"x\"", "[]"}

\* what process_chat does to a session_state that is a str or a list and not
\* empty: session_attributes['current_voice_style'] = voice_style raises
\* TypeError, which the route does not catch
process_chat_raised ==
    [answer |-> "TypeError", state |-> EmptyDict, outcome |-> "raised", status_code |-> 500]


\* the route from the parsing of session_state to the return of process_chat
process_chat_posted(text, session_state, voice_style, bedrock) ==
    IF session_state # "" /\ json_decodes(session_state)
       /\ decoded_type(session_state) # "dict"
       /\ Len(parsed_session_state(session_state)) > 0
    THEN process_chat_raised
    ELSE LET r == process_chat(text,
                               IF session_state # "" /\ json_decodes(session_state)
                                  /\ decoded_type(session_state) = "dict"
                               THEN parsed_session_state(session_state) ELSE EmptyDict,
                               voice_style, NoKnowledgeBase, bedrock)
         IN [answer |-> r.answer, state |-> r.state, outcome |-> r.outcome,
             status_code |-> 200]

InitMalformed ==
    /\ stored = ""
    /\ previous = EmptyDict
    /\ turn = NoTurn

\* one request with a session_state the client made up
PostMalformed ==
    /\ turn = NoTurn
    /\ \E t \in Questions, s \in MalformedStates, v \in VoiceStyles, b \in Backends :
         \E r \in {process_chat_posted(t, s, v, b)} :
           turn' = [text |-> t,
                    session_state |-> s,
                    voice_style |-> v,
                    generated |-> b,
                    answer |-> r.answer,
                    state |-> r.state,
                    outcome |-> r.outcome,
                    status_code |-> r.status_code]
    /\ UNCHANGED <<stored, previous>>

\* the reply is sent
ReplyMalformed ==
    /\ turn # NoTurn
    /\ turn' = NoTurn
    /\ UNCHANGED <<stored, previous>>

NextMalformed == PostMalformed \/ ReplyMalformed

SpecMalformed == InitMalformed /\ [][NextMalformed]_vars

(***************************************************************************)
(* Answer trimming on its own: the _trim_answer of AIService and the one   *)
(* of app/ai_middleware.py are applied to an answer and a max_length.      *)
(***************************************************************************)
TrimAnswers ==
    {"", "short", "  padded  ", "abcdefghijk", "abcdefghi\nxyz",
     "Yes. It is so. Done", "One. Two. Three. Four.", "a.b.c.d.e.f.g.h",
     "line\nline\nline\nline", "abcdefghijklmnopqrstuvwxyz"}

TrimLengths == {5, 10, 12, 20}

TrimInputs ==
    {[op |-> "input", answer |-> a, max_length |-> n] :
         a \in TrimAnswers, n \in TrimLengths}

InitTrim ==
    /\ stored = EmptyDict
    /\ previous = "none"
    /\ turn \in TrimInputs

TrimAnswer ==
    /\ turn.op = "input"
    /\ turn' = [op |-> "AIService._trim_answer",
                answer |-> turn.answer,
                max_length |-> turn.max_length,
                result |-> _trim_answer(turn.answer, turn.max_length)]
    /\ UNCHANGED <<stored, previous>>

MiddlewareTrimAnswer ==
    /\ turn.op = "input"
    /\ turn' = [op |-> "ai_middleware._trim_answer",
                answer |-> turn.answer,
                max_length |-> turn.max_length,
                result |-> middleware_trim_answer(turn.answer, turn.max_length)]
    /\ UNCHANGED <<stored, previous>>

NextTrim == TrimAnswer \/ MiddlewareTrimAnswer

SpecTrim == InitTrim /\ [][NextTrim]_vars

(***************************************************************************)
(* PromptEngineer.summarize_kb_context on its own: the summary of a list   *)
(* of passages, by a PromptEngineer built with ENABLE_KB_SUMMARIZATION     *)
(* unset or set.                                                           *)
(***************************************************************************)
RECURSIVE Repeated(_, _)
Repeated(s, n) == IF n = 0 THEN "" ELSE s \o Repeated(s, n - 1)

SummaryPassages ==
    {"2019 to 2021\n- built X\n- led Y\n- ran Z\n- more",
     "In 2020 I\n" \o Bullet \o " did A",
     "no dates\n- only point",
     "plain text 1999 here",
     "plain",
     "well-known work",
     Repeated("abcdefghij", 21)}

SummaryLists ==
    {<< >>} \cup {<<p>> : p \in SummaryPassages}
            \cup {<<p, q>> : p \in SummaryPassages, q \in SummaryPassages}

SummaryInputs ==
    {[op |-> "input", enabled |-> e, passages |-> l] :
         e \in BOOLEAN, l \in SummaryLists}

InitSummary ==
    /\ stored = EmptyDict
    /\ previous = "none"
    /\ turn \in SummaryInputs

SummarizeKbContext ==
    /\ turn.op = "input"
    /\ turn' = [op |-> "summarize_kb_context",
                enabled |-> turn.enabled,
                passages |-> turn.passages,
                result |-> summarize_kb_context(turn.enabled, turn.passages)]
    /\ UNCHANGED <<stored, previous>>

NextSummary == SummarizeKbContext

SpecSummary == InitSummary /\ [][NextSummary]_vars

(***************************************************************************)
(* The hand-off of process_chat from retrieval to selection: the backend   *)
(* returns passages, _retrieve_kb_context joins them into one text, and    *)
(* process_chat cuts the text into the passages it gives select_kb_context.*)
(***************************************************************************)
HandoffPassages ==
    {"P1", "P2", "built X in 2019", " padded\n", "first part\n\nsecond part",
     "line one\nline two", ""}

HandoffLists ==
    {<<p>> : p \in HandoffPassages}
    \cup {<<p, q>> : p \in HandoffPassages, q \in HandoffPassages}

HandoffInputs ==
    {[op |-> "input", question |-> q, returned |-> l] :
         q \in {"what is your background?", "which tool?"}, l \in HandoffLists}

InitHandoff ==
    /\ stored = EmptyDict
    /\ previous = "none"
    /\ turn \in HandoffInputs

\* kb_context = self.ai_service._retrieve_kb_context(question_text, number_of_results)
RetrieveKbContext ==
    /\ turn.op = "input"
    /\ turn' = [op |-> "_retrieve_kb_context",
                question |-> turn.question,
                returned |-> turn.returned,
                kb_context |->
                    _retrieve_kb_context(
                        turn.question,
                        get_kb_query_params(turn.question),
                        [kind |-> "results", passages |-> turn.returned]).kb_context]
    /\ UNCHANGED <<stored, previous>>

\* the passages process_chat gives select_kb_context
ParsePassages ==
    /\ turn.op = "_retrieve_kb_context"
    /\ turn.kb_context # ""
    /\ turn.kb_context # NoKbContext
    /\ turn' = [op |-> "select_kb_context",
                question |-> turn.question,
                returned |-> turn.returned,
                kb_context |-> turn.kb_context,
                passages |-> parsed_passages(turn.kb_context)]
    /\ UNCHANGED <<stored, previous>>

NextHandoff == RetrieveKbContext \/ ParsePassages

SpecHandoff == InitHandoff /\ [][NextHandoff]_vars

(***************************************************************************)
(* Properties of a turn.  A turn that has returned is held in `turn` until *)
(* the client stores its state: turn.prior is the state it was handed,     *)
(* turn.state the state it returned, turn.after the outcome of the turn    *)
(* before it.                                                              *)
(***************************************************************************)
Returned == turn # NoTurn

\* the turn reached query_bedrock
Generative == Returned /\ turn.outcome \in {"success", "failure"}

StyleOf(d) == d["current_voice_style"]

InPrompt(line) == \E i \in DOMAIN turn.prompt : turn.prompt[i] = line

NowhereInPrompt(piece) == \A i \in DOMAIN turn.prompt : ~Contains(turn.prompt[i], piece)

Blank(s) == \A i \in 1..Len(s) : Chr(s, i) \in Whitespace

\* C1: from the empty session state on, with every turn handed the state the
\* turn before returned, conversation_history holds at most 3 entries after
\* every turn, whether it succeeded, failed or asked for clarification
C1_MemoryBound ==
    /\ Len(HistoryOf(stored)) <= 3
    /\ Returned => Len(HistoryOf(turn.state)) <= 3

\* a successful turn that was handed a full history
C1_Witness ==
    /\ Returned
    /\ turn.outcome = "success"
    /\ Len(HistoryOf(turn.prior)) = 3
    /\ Len(HistoryOf(turn.state)) = 3

\* C2: a successful turn appends its {question, answer} at the end of the
\* history and drops from the front what exceeds 3 entries: the history it
\* returns is the last min(3, n + 1) entries of the n it was handed followed
\* by its own
C2_FifoEviction ==
    Returned /\ turn.outcome = "success" =>
        LET all == Append(HistoryOf(turn.prior),
                          [question |-> turn.question, answer |-> turn.answer])
            kept == HistoryOf(turn.state)
        IN /\ Len(kept) = Min(3, Len(all))
           /\ \A i \in 1..Len(kept) : kept[i] = all[Len(all) - Len(kept) + i]

\* a successful turn that evicts an exchange unlike the one that follows it
C2_Witness ==
    /\ Returned
    /\ turn.outcome = "success"
    /\ Len(HistoryOf(turn.prior)) = 3
    /\ HistoryOf(turn.prior)[1] # HistoryOf(turn.prior)[2]
    /\ HistoryOf(turn.state)[1] = HistoryOf(turn.prior)[2]
    /\ HistoryOf(turn.state)[3].question = turn.question

\* the exchanges of a history the prompt of the turn renders as context
RendersContext(conversation_history) ==
    \A i \in 1..Len(conversation_history) :
        /\ InPrompt("Q" \o ToString(i) \o ": " \o conversation_history[i].question)
        /\ InPrompt("A" \o ToString(i) \o ": " \o conversation_history[i].answer)

\* C3: a turn on which generation fails returns the fixed apology and the
\* history it was handed, the failed exchange not appended; the turn that
\* follows it is handed the earlier exchanges and its prompt renders the
\* latest of them (the two the prompt has room for) as context
C3_FailureIsolation ==
    /\ Returned /\ turn.outcome = "failure" =>
           /\ turn.answer =
                  "I'm having trouble processing your request right now. Please try again."
           /\ HistoryOf(turn.state) = HistoryOf(turn.prior)
    /\ Generative /\ turn.after = "failure" =>
           /\ HistoryOf(turn.prior) = HistoryOf(stored)
           /\ RendersContext(LastOf(HistoryOf(turn.prior), 2))

\* a turn that follows a failed one and is handed earlier exchanges
C3_Witness ==
    /\ Generative
    /\ turn.after = "failure"
    /\ Len(HistoryOf(turn.prior)) = 3
    /\ InPrompt("CONVERSATION CONTEXT:")

\* C4: the state process_chat returns after a failed generation holds neither
\* last_question nor last_answer, whatever the state it was handed held
C4_ClearedOnFailure ==
    Returned /\ turn.outcome = "failure" =>
        /\ ~Has(turn.state, "last_question")
        /\ ~Has(turn.state, "last_answer")

\* C5: on every path the state process_chat was handed is, when the call
\* returns, the value it was when the call was made
C5_PriorUnchanged == Returned => turn.prior_after = turn.prior

\* C6: a turn whose text is empty or blank returns the fixed clarification,
\* invokes neither retrieval nor generation, and returns a state whose
\* conversation_history is empty
C6_EmptyQuestion ==
    Returned /\ Blank(turn.text) =>
        /\ turn.answer =
               "I did not catch a question. Please ask me about experience, skills, or leadership style."
        /\ turn.retrievals = 0
        /\ turn.invocations = 0
        /\ HistoryOf(turn.state) = << >>

\* the recognizer sent a message whose text is not empty
SentText ==
    \E i \in DOMAIN turn.messages :
        Has(turn.messages[i], "content") /\ turn.messages[i]["content"] # ""

\* the text of the messages the recognizer sent, one per line
SentLines ==
    join("\n", [i \in DOMAIN turn.messages |->
                    IF Has(turn.messages[i], "content")
                    THEN turn.messages[i]["content"] ELSE ""])

\* the text is all in characters HTML does not escape
PlainHtml(s) == \A i \in 1..Len(s) : Chr(s, i) \notin {"&", "<", ">", "\"", "'"}

C8_VoiceOverride ==
    Returned /\ turn.voice # << >> /\ Has(turn.prior, "current_voice_style")
             /\ StyleOf(turn.prior) # turn.voice[1] =>
        /\ StyleOf(turn.state) = turn.voice[1]
        /\ Generative =>
               /\ turn.voice[1] # "normal" =>
                      InPrompt(_get_voice_style_instructions(turn.voice[1]))
               /\ StyleOf(turn.prior) # "normal" =>
                      NowhereInPrompt(_get_voice_style_instructions(StyleOf(turn.prior)))

\* a pirate session asked for one ninja answer
C8_Witness ==
    /\ Generative
    /\ turn.voice = <<"ninja">>
    /\ Has(turn.prior, "current_voice_style")
    /\ StyleOf(turn.prior) = "pirate"
    /\ StyleOf(turn.state) = "ninja"

\* C9: when the state handed to a turn stores the style X and the request
\* names no style, the state the turn returns stores X and the prompt sent
\* to generation carries X's instructions
C9_VoicePersists ==
    Returned /\ turn.voice = << >> /\ Has(turn.prior, "current_voice_style") =>
        /\ StyleOf(turn.state) = StyleOf(turn.prior)
        /\ Generative /\ StyleOf(turn.prior) # "normal" =>
               InPrompt(_get_voice_style_instructions(StyleOf(turn.prior)))

\* C10: a turn invokes the generation backend at most once: once on the
\* generative path, never otherwise, and a failure ends the turn with the
\* fixed apology after that one invocation
C10_SingleAttempt ==
    Returned =>
        /\ turn.invocations <= 1
        /\ Generative => turn.invocations = 1
        /\ turn.outcome = "failure" =>
               /\ turn.invocations = 1
               /\ turn.answer = FallbackMessage

\* a turn on which the one invocation failed
C10_Witness ==
    /\ Returned
    /\ turn.outcome = "failure"
    /\ turn.invocations = 1
    /\ turn.answer = FallbackMessage

\* C11: a turn with a question whose retrieval is not configured (the backend
\* is then not called), raises or returns no passages still invokes
\* generation, with a prompt that has no knowledge-base block, and returns a
\* generated answer or the fixed apology
C11_RetrievalNeverBlocks ==
    Returned /\ ~Blank(turn.text)
             /\ (turn.kb.kind \in {"unconfigured", "raise"} \/ turn.kb.passages = << >>) =>
        /\ turn.invocations = 1
        /\ turn.outcome \in {"success", "failure"}
        /\ turn.kb.kind = "unconfigured" => turn.retrievals = 0
        /\ ~InPrompt("Additional context from knowledge base:")
        /\ \A i \in DOMAIN turn.prompt : turn.prompt[i] # "KB retrieval failed"
        /\ turn.outcome = "success" => turn.answer \in Answers
        /\ turn.outcome = "failure" => turn.answer = FallbackMessage

\* a turn that was answered although its retrieval raised
C11_Witness ==
    /\ Returned
    /\ turn.kb.kind = "raise"
    /\ turn.retrievals = 1
    /\ turn.outcome = "success"
    /\ turn.answer \in Answers
    /\ Len(turn.prompt) > 0

\* C12: whatever the recognizer and the generation backend do, the caller is
\* answered with the recognizer's own answer, generated text or a fixed
\* message (clarification, apology): no exception ends the turn and no
\* backend error text is returned
C12_DegradesToFixedMessage ==
    Returned /\ turn.outcome # "invalid" =>
        /\ turn.outcome \in {"direct", "success", "failure", "clarification"}
        /\ turn.answer # LexError
        /\ turn.outcome = "clarification" => turn.answer = ClarificationMessage
        /\ turn.outcome = "failure" => turn.answer = MiddlewareFallback

\* C13: a POST /chat whose text is missing or empty, or that has no
\* session_id, is answered with a 400-class status and neither the
\* recognizer nor generation is invoked, in the form mode and in the JSON mode
C13_TransportValidation ==
    Returned /\ (turn.request.text \in {<< >>, <<"">>} \/ turn.request.session_id = << >>) =>
        /\ turn.status_code \in 400..499
        /\ turn.recognitions = 0
        /\ turn.invocations = 0

\* calculate_response_length has been applied to turn.question and turn.cap
Calculated == turn.op = "calculate_response_length"

\* the question as the policy reads it
Asked == strip(lower(turn.question))

HasAny(words) == \E w \in words : Contains(Asked, w)

\* the budgets of the classes the question matches, in the order of the policy
MatchedBudgets ==
    (IF Asked \in Greetings THEN <<100>> ELSE << >>)
    \o (IF HasAny(AttributeWords) THEN <<700>> ELSE << >>)
    \o (IF HasAny(InterrogativeWords) THEN <<600>> ELSE << >>)
    \o (IF HasAny(NarrativeWords) THEN <<700>> ELSE << >>)
    \o <<500>>

\* C14: the length policy is first-match-wins with a cap: the result is the
\* smaller of the cap and the budget of the first class the question matches,
\* in the order greeting (100), fact keyword (700), interrogative word (600),
\* narrative phrase (700), default (500); so a fact keyword with an
\* interrogative word gives 700, an interrogative word with a narrative phrase
\* and no fact keyword gives 600, and the result never exceeds the cap
C14_FirstMatchWithCap ==
    Calculated =>
        /\ turn.result = Min(Head(MatchedBudgets), turn.cap)
        /\ turn.result <= turn.cap
        /\ Asked \notin Greetings /\ HasAny(AttributeWords) /\ HasAny(InterrogativeWords) =>
               turn.result = Min(700, turn.cap)
        /\ Asked \notin Greetings /\ ~HasAny(AttributeWords)
             /\ HasAny(InterrogativeWords) /\ HasAny(NarrativeWords) =>
               turn.result = Min(600, turn.cap)

C14_Witness ==
    /\ Calculated
    /\ HasAny(InterrogativeWords) /\ HasAny(NarrativeWords) /\ ~HasAny(AttributeWords)
    /\ turn.cap = 1000
    /\ turn.result = 600

\* the policy has been applied to this question under this cap
CalculatedFor(question, cap) ==
    Calculated /\ turn.question = question /\ turn.cap = cap

\* C15 as stated: the length policy gives 150 for "hi" under a cap of 1000,
\* 700 for "tell me about your background" under a cap of 1000 and 200 for
\* it under a cap of 200
C15_LengthExamples ==
    /\ CalculatedFor("hi", 1000) => turn.result = 150
    /\ CalculatedFor("tell me about your background", 1000) => turn.result = 700
    /\ CalculatedFor("tell me about your background", 200) => turn.result = 200

\* C15, amended: the length policy gives 100 for "hi" under a cap of 1000,
\* 700 for "tell me about your background" under a cap of 1000 and 200 for
\* it under a cap of 200
C15_LengthExamplesGreeting100 ==
    /\ CalculatedFor("hi", 1000) => turn.result = 100
    /\ CalculatedFor("tell me about your background", 1000) => turn.result = 700
    /\ CalculatedFor("tell me about your background", 200) => turn.result = 200

C15_Witness == CalculatedFor("hi", 1000) /\ turn.result = 100

\* a normalize_person_name has been applied to turn.person_value
Normalized ==
    turn.op \in {"AIService.normalize_person_name",
                 "ai_middleware.normalize_person_name"}

\* the variants of the persona's name the claim lists, in lower case
KnownVariants ==
    {"charles", "charlie", "chaz", "charles o'brien", "charles obrien",
     "charles o brien"}

\* C16: without regard to case and surrounding whitespace, every known
\* variant of the name normalizes to the one canonical name; any other name
\* that is not empty comes back title-cased; an empty, whitespace-only or
\* missing name gives the configured default persona
C16_PersonNormalization ==
    Normalized =>
        LET name == strip(turn.person_value)
        IN /\ lower(name) \in KnownVariants => turn.result = "Charles"
           /\ name # "" /\ lower(name) \notin KnownVariants => turn.result = title(name)
           /\ name = "" => turn.result = getenv_default_person(turn.environment)

\* none of the person patterns of _extract_intent_slots matches the text
NamesNoPerson(text) ==
    /\ re_search("person_about", strip(lower(text))) = ""
    /\ re_search("person_possessive", strip(lower(text))) = ""
    /\ re_search("person_start", strip(lower(text))) = ""

\* C17: for every turn whose text names no person, the person process_chat
\* goes on with is the configured default persona, whatever DEFAULT_PERSON
\* is set to
C17_DefaultPersonaConfigured ==
    turn.op = "process_chat" /\ NamesNoPerson(turn.text) =>
        turn.person = getenv_default_person(turn.environment)

\* the text holds a character outside ASCII
NonAscii(s) == \E i \in 1..Len(s) : Chr(s, i) \in DOMAIN UnicodeEscapes

\* C18: every session state a turn returns comes back equal from the text the
\* route writes and parses between turns: the state the next turn is handed
\* has the same keys, the same history in the same order and the same strings
C18_RoundTrip ==
    Returned => turn.prior = turn.before

C18_Witness ==
    /\ Returned
    /\ turn.prior = turn.before
    /\ Len(HistoryOf(turn.prior)) = 3
    /\ \E i \in 1..3 : NonAscii(turn.prior["conversation_history"][i].answer)
    /\ NonAscii(turn.prior["last_answer"])

\* the text holds a newline or a carriage return
HasLineBreak(s) == \E i \in 1..Len(s) : Chr(s, i) \in {"\n", "\r"}

\* C19: after a successful turn no question and no answer stored in
\* conversation_history holds a newline or a carriage return, whatever the
\* text of the user and the generated text hold
C19_StoredTextSanitized ==
    Returned /\ turn.outcome = "success" =>
        \A i \in DOMAIN HistoryOf(turn.state) :
            /\ ~HasLineBreak(turn.state["conversation_history"][i].question)
            /\ ~HasLineBreak(turn.state["conversation_history"][i].answer)

\* C20: in every state a session reaches from the empty one in which
\* last_question and last_answer are present, they are the question and the
\* answer of the last entry of conversation_history
C20_MirrorsHistoryTail ==
    Returned /\ Has(turn.state, "last_question") /\ Has(turn.state, "last_answer") =>
        /\ Len(HistoryOf(turn.state)) > 0
        /\ turn.state["last_question"] =
               turn.state["conversation_history"][Len(HistoryOf(turn.state))].question
        /\ turn.state["last_answer"] =
               turn.state["conversation_history"][Len(HistoryOf(turn.state))].answer

\* build_prompt has been applied to the inputs held in turn
Built == turn.op = "build_prompt"

\* the history build_prompt was handed
Handed == HistoryOf(turn.attributes)

\* the exchanges the claim has the prompt show: the last min(2, n)
Shown == SubSeq(Handed, IF Len(Handed) > 2 THEN Len(Handed) - 1 ELSE 1, Len(Handed))

\* the position of a line in the prompt, 0 when it is not there
PromptLine(line) ==
    IF InPrompt(line) THEN CHOOSE i \in DOMAIN turn.prompt : turn.prompt[i] = line ELSE 0

\* C21: build_prompt renders the conversation-context block exactly when the
\* history is not empty; the block shows the last min(2, n) exchanges, oldest
\* first, as pairs labelled Q1/A1, Q2/A2, and no older exchange
C21_ConversationContextBlock ==
    Built =>
        /\ InPrompt("CONVERSATION CONTEXT:") <=> Len(Handed) > 0
        /\ Len(Handed) > 0 =>
             /\ \A j \in 1..Len(Shown) :
                  /\ turn.prompt[PromptLine("CONVERSATION CONTEXT:") + 3 * j - 2]
                       = "Q" \o ToString(j) \o ": " \o Shown[j].question
                  /\ turn.prompt[PromptLine("CONVERSATION CONTEXT:") + 3 * j - 1]
                       = "A" \o ToString(j) \o ": " \o Shown[j].answer
             /\ \A i \in 1..(Len(Handed) - 2) :
                  /\ NowhereInPrompt(Handed[i].question)
                  /\ NowhereInPrompt(Handed[i].answer)
             /\ \A i \in DOMAIN turn.prompt :
                  ~StartsAt(turn.prompt[i], 1, "Q" \o ToString(Len(Shown) + 1) \o ": ")

C21_Witness ==
    /\ Built
    /\ Len(Handed) = 4
    /\ InPrompt("Q1: asked 3") /\ InPrompt("A2: answered 4")
    /\ NowhereInPrompt("asked 2")

\* the position of the first line of the prompt that starts with the text,
\* 0 when there is none
PromptLineStarting(text) ==
    LET hits == {i \in DOMAIN turn.prompt : StartsAt(turn.prompt[i], 1, text)}
    IN IF hits = {} THEN 0 ELSE CHOOSE i \in hits : \A j \in hits : i <= j

\* the KB context the prompt was built with holds knowledge
WithKnowledge == turn.kb_context[1] \notin {"", NoKbContext}

\* C22: with the default template, a voice style that has instructions, a
\* history that is not empty and retrieved knowledge, the prompt holds, in
\* this order, the persona instructions naming the person, the voice-style
\* instructions, the conversation context, the knowledge context and the
\* question
C22_SectionOrder ==
    Built /\ _get_voice_style_instructions(turn.voice_style) # ""
          /\ Len(Handed) > 0 /\ WithKnowledge =>
        /\ 0 < PromptLineStarting("You are Charlie Chat, representing " \o turn.person)
        /\ PromptLineStarting("You are Charlie Chat, representing " \o turn.person)
             < PromptLine(_get_voice_style_instructions(turn.voice_style))
        /\ PromptLine(_get_voice_style_instructions(turn.voice_style))
             < PromptLine("CONVERSATION CONTEXT:")
        /\ PromptLine("CONVERSATION CONTEXT:")
             < PromptLine("Additional context from knowledge base:")
        /\ PromptLine("Additional context from knowledge base:")
             < PromptLine("Question: " \o turn.question)

\* the instruction texts of the voice styles
VoiceInstructionTexts ==
    {_get_voice_style_instructions(style) : style \in VoiceStyles} \ {""}

\* C23: with an unknown or the normal voice style, an empty or missing
\* history and no retrieved knowledge (none handed, empty, or the signal of
\* no context), the prompt is composed and holds no voice instruction text,
\* no conversation-context label and no knowledge-context label, and it still
\* holds the person and the question
C23_AbsentSections ==
    Built /\ turn.voice_style \notin {"surfer", "pirate", "ninja"}
          /\ Len(Handed) = 0 /\ ~WithKnowledge =>
        /\ \A text \in VoiceInstructionTexts : NowhereInPrompt(text)
        /\ NowhereInPrompt("CONVERSATION CONTEXT")
        /\ NowhereInPrompt("Additional context from knowledge base")
        /\ NowhereInPrompt(NoKbContext)
        /\ PromptLineStarting("You are Charlie Chat, representing " \o turn.person \o ".") > 0
        /\ InPrompt("Question: " \o turn.question)

C23_Witness ==
    /\ Built
    /\ turn.voice_style = "robot"
    /\ turn.attributes = EmptyDict
    /\ turn.kb.kind = "raise" /\ turn.kb_context = <<NoKbContext>>
    /\ InPrompt("Question: and then?")
    /\ NowhereInPrompt("CONVERSATION CONTEXT")

\* the fetch count the policy has for the question of the turn: 3 when it
\* holds a background keyword, 2 otherwise
PolicyCount ==
    IF \E w \in BackgroundWords : Contains(lower(turn.question), w) THEN 3 ELSE 2

\* the first passages handed, in their order, as many as the policy keeps
PolicyKept ==
    SubSeq(turn.kb_passages, 1, Min(PolicyCount, Len(turn.kb_passages)))

\* C24 as stated: for every question and every list of passages, the empty
\* one included, select_kb_context returns the first min(n, len) passages in
\* their order and the fetch count n, n being 3 for a question with a
\* background keyword and 2 otherwise, and get_kb_query_params recommends the
\* same n
C24_ContextSelector ==
    /\ turn.op = "select_kb_context" =>
         turn.selected = PolicyKept /\ turn.query_results = PolicyCount
    /\ turn.op = "get_kb_query_params" => turn.number_of_results = PolicyCount

\* C24, amended: select_kb_context returns the first min(n, len) passages in
\* their order; with a list that is not empty it returns the fetch count n,
\* with an empty list the fetch count 3 whatever the question;
\* get_kb_query_params recommends n
C24_ContextSelectorNotEmpty ==
    /\ turn.op = "select_kb_context" =>
         /\ turn.selected = PolicyKept
         /\ Len(turn.kb_passages) > 0 => turn.query_results = PolicyCount
         /\ Len(turn.kb_passages) = 0 => turn.query_results = 3
    /\ turn.op = "get_kb_query_params" => turn.number_of_results = PolicyCount

C24_Witness ==
    /\ turn.op = "select_kb_context"
    /\ turn.question = "what is your experience?"
    /\ Len(turn.kb_passages) = 4
    /\ turn.selected = <<"P1", "P2", "P3">>
    /\ turn.query_results = 3

\* what the turn of a request returns when it is processed alone
Alone(r) ==
    process_chat(turn[r].call.text, turn[r].call.session_state,
                 turn[r].call.voice_style, NoKnowledgeBase, turn[r].call.bedrock)

\* C25: whatever the interleaving of the turns in progress, each with the
\* state decoded for it, the answer and the state a turn returns are the ones
\* it returns when processed alone, and the service instance the turns share
\* is as it was constructed
C25_NoInterference ==
    /\ previous = ServiceInstance
    /\ \A r \in Requests :
         turn[r].pc = "returned" =>
             /\ turn[r].answer = Alone(r).answer
             /\ turn[r].state = Alone(r).state

C25_Witness ==
    /\ turn["r1"].pc = "returned"
    /\ turn["r1"].call.text = "Q1"
    /\ turn["r1"].call.bedrock.kind = "ok"
    /\ turn["r1"].call.session_state # EmptyDict
    /\ Len(HistoryOf(turn["r1"].state)) = 2
    /\ turn["r2"].pc = "retrieved"
    /\ turn["r2"].call.session_state = EmptyDict
    /\ turn["r2"].call.voice_style = "pirate"

\* C26: for every session_state that carries no valid conversation_history
\* (none, text that is not JSON, a JSON value with other content) the turn is
\* processed as the start of a conversation: the request does not fail, and
\* when generation answers the turn returns the answer and a state whose
\* conversation_history holds the new exchange and nothing else
C26_MalformedStateHandled ==
    Returned =>
        /\ turn.outcome \in {"success", "failure"}
        /\ turn.status_code = 200
        /\ turn.generated.kind = "ok" =>
             /\ turn.answer = turn.generated.text
             /\ Has(turn.state, "conversation_history")
             /\ turn.state["conversation_history"]
                  = <<[question |-> turn.text, answer |-> turn.generated.text]>>

\* a _trim_answer has been applied to turn.answer
Trimmed ==
    turn.op \in {"AIService._trim_answer", "ai_middleware._trim_answer"}

\* s.endswith(suffix)
EndsWith(s, suffix) == StartsAt(s, Len(s) - Len(suffix) + 1, suffix)

\* C27: for every answer whose stripped length exceeds max_length,
\* _trim_answer returns a text strictly shorter than the answer that ends
\* with "." or with "..."; an answer of at most max_length characters comes
\* back unchanged apart from the stripping
C27_TrimShortens ==
    Trimmed =>
        /\ Len(strip(turn.answer)) > turn.max_length =>
             /\ Len(turn.result) < Len(turn.answer)
             /\ EndsWith(turn.result, ".")
        /\ Len(strip(turn.answer)) <= turn.max_length =>
             turn.result = strip(turn.answer)

(***************************************************************************)
(* Properties of summarize_kb_context.                                     *)
(***************************************************************************)
Summarized == turn.op = "summarize_kb_context"

\* the 4-digit years of a passage, in the order they appear
RECURSIVE YearsFrom(_, _)
YearsFrom(passage, i) ==
    LET matches == {j \in i..Len(passage) : YearAt(passage, j)}
    IN IF matches = {} THEN << >>
       ELSE <<SubSeq(passage, Least(matches), Least(matches) + 3)>>
            \o YearsFrom(passage, Least(matches) + 4)

\* earliest-latest, the single year, or Recent
DateRange(passage) ==
    LET years == YearsFrom(passage, 1)
    IN IF Len(years) = 0 THEN "Recent"
       ELSE IF Len(years) = 1 THEN years[1]
       ELSE min_date(years) \o "-" \o max_date(years)

IsBulletLine(line) ==
    LET body == lstrip(line) IN StartsAt(body, 1, "-") \/ StartsAt(body, 1, Bullet)

\* the text of a bullet-prefixed line after its bullet
BulletText(line) == lstrip(Tail(lstrip(line)))

\* the texts of the bullet-prefixed lines of a passage
BulletLines(passage) ==
    LET lines == SelectSeq(split(passage, "\n"), IsBulletLine)
    IN [i \in DOMAIN lines |-> BulletText(lines[i])]

\* the chunk of one passage starts with its date range, then holds its first
\* bullet lines or, without bullet lines, its first 200 characters
ChunkOf(chunk, passage) ==
    LET head == "[" \o DateRange(passage) \o "] "
        points == BulletLines(passage)
    IN IF Len(points) > 0
       THEN chunk = head \o join("; ", Slice(points, 0, 3))
       ELSE StartsAt(chunk, 1, head \o Slice(passage, 0, 200))

\* C28 (disabled): with summarization disabled the summary is the passages
\* joined verbatim, in order, by blank lines.
C28_DisabledVerbatim ==
    Summarized /\ ~turn.enabled => turn.result = join("\n\n", turn.passages)

\* C28 (one chunk): with summarization enabled the summary of a passage is
\* one chunk that opens with a bracket and holds no blank line.
C28_OneChunk ==
    Summarized /\ turn.enabled /\ Len(turn.passages) = 1
        => StartsAt(turn.result, 1, "[") /\ ~Contains(turn.result, "\n\n")

\* C28: with summarization disabled the summary is the passages joined
\* verbatim by blank lines; with it enabled every passage gives one chunk
\* "[date-range] ..." whose date range is the earliest and the latest 4-digit
\* year of the passage (the single year, or Recent), followed by the first
\* up to 3 bullet-prefixed lines joined by "; " or, without bullet lines, by
\* the first 200 characters of the passage.
C28_Summarization ==
    Summarized =>
        IF ~turn.enabled \/ Len(turn.passages) = 0
        THEN turn.result = join("\n\n", turn.passages)
        ELSE LET chunks == split(turn.result, "\n\n")
             IN /\ Len(chunks) = Len(turn.passages)
                /\ \A i \in DOMAIN chunks : ChunkOf(chunks[i], turn.passages[i])

\* a name has passed through AIService.normalize_person_name twice
NormalizedTwice == turn.op = "AIService.normalize_person_name twice"

\* C29 (canonical default): when DEFAULT_PERSON is unset or set to a name that
\* normalization leaves alone, normalizing a second time changes nothing.
C29_IdempotentCanonicalDefault ==
    NormalizedTwice /\ turn.environment \in {<< >>, <<"Maria">>}
        => turn.result = turn.once

\* C29: person normalization is idempotent: for every input, empty and
\* missing included, and every configured default persona, normalizing the
\* normalized name gives the same name.
C29_Idempotent == NormalizedTwice => turn.result = turn.once

\* process_chat has given passages to select_kb_context
Parsed == turn.op = "select_kb_context"

\* a passage the join and the split leave alone: not empty, no surrounding
\* whitespace and no blank line inside
PlainPassage(passage) ==
    passage # "" /\ strip(passage) = passage /\ ~Contains(passage, "\n\n")

\* C30 (plain passages): when no returned passage is empty, has surrounding
\* whitespace or holds a blank line, select_kb_context is given the returned
\* passages.
C30_PlainPassagesSurvive ==
    Parsed /\ (\A i \in DOMAIN turn.returned : PlainPassage(turn.returned[i]))
        => turn.passages = turn.returned

\* C30: the passages process_chat gives select_kb_context are exactly the
\* passages the retrieval backend returned, the same number in the same order,
\* whatever their texts: the join by blank lines followed by the split at
\* blank lines is the identity on lists of passages.
C30_PassagesSurviveHandoff == Parsed => turn.passages = turn.returned

====
